---- MODULE Spec2Model ----
(***************************************************************************)
(* Wallet ledger and tournament registration of FF_2026_Backend.           *)
(*                                                                         *)
(* The server is one Node.js process: the synchronous code between two     *)
(* awaits runs without interruption, and every awaited MongoDB operation   *)
(* is atomic on its own.  One action of this model is therefore one        *)
(* database operation of a request handler together with the synchronous   *)
(* code that follows it up to the next await.  Requests are the elements   *)
(* of DOMAIN calls; their steps interleave freely.                         *)
(*                                                                         *)
(* Amounts are integers (minor currency units).                            *)
(***************************************************************************)
EXTENDS Integers, Sequences, FiniteSets, TLC

VARIABLES users, tournaments, ledger, registrations, calls, split

vars == <<users, tournaments, ledger, registrations, calls, split>>

(***************************************************************************)
(* Bounds                                                                  *)
(***************************************************************************)
\* number of register requests of the registration specification
NumCalls == 2
\* number of requests of the ledger specification
NumLedgerCalls == 2
\* largest balance / fee of the deduction-split specification
MaxAmount == 4
\* number of register requests of the specification with failing ledger
\* operations
NumFaultCalls == 2
\* number of register requests of the input specification
NumInputCalls == 1
\* number of award requests of the award specification
NumAwardCalls == 1
\* number of award requests of the specification of repeated awards
NumRepeatCalls == 2
\* number of requests of the verify-payment specification
NumPaymentCalls == 2
\* number of register requests of the specification with process stops
NumStopCalls == 2
\* largest balance of a user in the specification of two concurrent requests
MaxPairBalance == 2
\* number of register requests of the team-selection specification
NumTeamCalls == 1
\* number of register requests of the terms-acceptance specification
NumTermsCalls == 1
\* number of register requests of the snapshot specification
NumSnapshotCalls == 1

(***************************************************************************)
(* Collections at start-up                                                 *)
(***************************************************************************)
Users == {"u1", "u2"}

Tournaments == {"t1", "t2", "t3"}

\* Users as created before the requests arrive (User schema: two Number
\* sub-balances).
InitUsers ==
    [u \in Users |->
        IF u = "u1" THEN [depositAmount |-> 3, winningAmount |-> 4]
                    ELSE [depositAmount |-> 1, winningAmount |-> 2]]

\* Tournaments as POST /admin/tournaments creates them: no registered
\* player, maxSlots >= 1, entryFee >= 0, any of the three statuses.
InitTournaments ==
    [t \in Tournaments |->
        CASE t = "t1" -> [exists |-> TRUE, status |-> "upcoming", teamSize |-> "1vs1",
                          entryFee |-> 2, maxSlots |-> 1,
                          registeredPlayers |-> 0, registeredUsers |-> <<>>]
          [] t = "t2" -> [exists |-> TRUE, status |-> "upcoming", teamSize |-> "2v2",
                          entryFee |-> 3, maxSlots |-> 2,
                          registeredPlayers |-> 0, registeredUsers |-> <<>>]
          [] OTHER    -> [exists |-> TRUE, status |-> "completed", teamSize |-> "4v4",
                          entryFee |-> 1, maxSlots |-> 2,
                          registeredPlayers |-> 0, registeredUsers |-> <<>>]]

\* What is left of a tournament after findByIdAndDelete.
DeletedTournament ==
    [exists |-> FALSE, status |-> "deleted", teamSize |-> "none",
     entryFee |-> 0, maxSlots |-> 0,
     registeredPlayers |-> 0, registeredUsers |-> <<>>]

(***************************************************************************)
(* Strings: a string is a sequence of one-character strings.               *)
(***************************************************************************)
Digits == {"0", "1", "2", "3", "4", "5", "6", "7", "8", "9"}

Whitespace == {" "}

RECURSIVE TrimStart(_)
TrimStart(s) ==
    IF s = <<>> THEN <<>>
    ELSE IF Head(s) \in Whitespace THEN TrimStart(Tail(s)) ELSE s

RECURSIVE TrimEnd(_)
TrimEnd(s) ==
    IF s = <<>> THEN <<>>
    ELSE IF s[Len(s)] \in Whitespace THEN TrimEnd(SubSeq(s, 1, Len(s) - 1)) ELSE s

\* String.prototype.trim
Trim(s) == TrimEnd(TrimStart(s))

\* /^\d+$/.test(s)
AllDigits(s) == Len(s) > 0 /\ \A i \in 1..Len(s) : s[i] \in Digits

\* JavaScript values of a request body, written as their literals.  The
\* values that convert to false in a condition:
Falsy == {"undefined", "null", "false", "0", "''", "NaN"}

\* the conversion of a value to a boolean in if (...) and !value
Truthy(value) == value \notin Falsy

Range(s) == {s[i] : i \in 1..Len(s)}

(***************************************************************************)
(* Documents and request records                                           *)
(***************************************************************************)
NoBalance == [depositAmount |-> 0, winningAmount |-> 0]

\* arguments of a logTransaction call
NoArgs ==
    [userId |-> "none", type |-> "none", amount |-> 0, description |-> "none",
     reference |-> "none", referenceType |-> "none"]

\* "no Transaction document" (null)
NoTransaction ==
    [id |-> 0, userId |-> "none", type |-> "none", amount |-> 0,
     description |-> "none", reference |-> "none", referenceType |-> "none",
     status |-> "none"]

\* A request that has not arrived yet.  The fields after message are the
\* handler's local variables.
IdleCall ==
    [kind |-> "none", pc |-> "idle", status |-> 0, message |-> "none",
     userId |-> "none", tournamentId |-> "none",
     freeFireId |-> <<>>, teamSelection |-> "null",
     registeredPlayers |-> 0, entryFee |-> 0,
     userRead |-> NoBalance, user |-> NoBalance,
     deductedFromDeposit |-> 0, deductedFromWinning |-> 0, newBalance |-> 0,
     tx |-> NoArgs, logResult |-> "none", logError |-> "none",
     logReturn |-> NoTransaction,
     winners |-> <<>>, results |-> <<>>,
     paymentId |-> "none", amount |-> 0]

\* res.status(status).json({ message }): the handler returns and its loaded
\* documents are dropped; what it answered, and what logTransaction did for
\* it, is kept.
Respond(call, status, message) ==
    [call EXCEPT !.pc = "done", !.status = status, !.message = message,
                 !.registeredPlayers = 0, !.entryFee = 0,
                 !.userRead = NoBalance, !.user = NoBalance]

\* Requests are interchangeable: they arrive in the order of their numbers.
MayArrive(c) ==
    /\ c \in DOMAIN calls
    /\ calls[c].pc = "idle"
    /\ \A b \in DOMAIN calls : b < c => calls[b].pc # "idle"

(***************************************************************************)
(* Mongoose and MongoDB                                                    *)
(***************************************************************************)
\* a strict comparison of the token's id string with the stored ObjectIds,
\* which never matches
IncludesStrict(array, userId) == FALSE

\* MongooseArray.includes on registeredUsers
Includes(array, userId) == userId \in Range(array)

\* user.save(): Mongoose writes ($set) the paths whose value was changed
\* after the document was loaded, and leaves the other paths of the stored
\* document alone.
UserSave(stored, read, local) ==
    [depositAmount |-> IF local.depositAmount # read.depositAmount
                          THEN local.depositAmount ELSE stored.depositAmount,
     winningAmount |-> IF local.winningAmount # read.winningAmount
                          THEN local.winningAmount ELSE stored.winningAmount]

\* tournament.save() after registeredUsers.push(userId) and
\* registeredPlayers += 1: the push is sent as an atomic $push, the counter
\* as a $set of the value computed from the loaded document.
TournamentSave(stored, userId, localPlayers) ==
    [stored EXCEPT !.registeredUsers = Append(@, userId),
                   !.registeredPlayers = localPlayers]

\* The deduplication key of a ledger entry.
TxKey(t) == <<t.userId, t.reference, t.referenceType>>

\* a lookup on a misspelt field, which matches nothing
FindTransactionsNone(docs, args) == {}

\* Transaction.findOne({ userId, reference, referenceType })
FindTransactions(docs, args) == {e \in docs : TxKey(e) = TxKey(args)}

\* the index declared without { unique: true }
TransactionIndexNotUnique(docs, doc) == FALSE

\* unique index { userId, reference, referenceType } of transactions
TransactionIndexViolated(docs, doc) == \E e \in docs : TxKey(e) = TxKey(doc)

ReferenceTypes == {"payment_id", "tournament_id", "withdrawal_id"}

\* schema validation run by transaction.save() before the insert
TransactionValid(doc) == doc.referenceType \in ReferenceTypes

\* registrations with the index { tournamentId, freeFireId } alone
RegistrationIndexFreeFireIdOnly(docs, doc) ==
    \E r \in docs : r.tournamentId = doc.tournamentId /\ r.freeFireId = doc.freeFireId

\* registrations with the index { userId, tournamentId } alone
RegistrationIndexUserOnly(docs, doc) ==
    \E r \in docs : r.userId = doc.userId /\ r.tournamentId = doc.tournamentId


\* a unique index on freeFireId alone, reaching across tournaments
RegistrationIndexAcrossTournaments(docs, doc) ==
    \/ \E r \in docs : r.userId = doc.userId /\ r.tournamentId = doc.tournamentId
    \/ \E r \in docs : r.freeFireId = doc.freeFireId


\* unique indexes { userId, tournamentId } and { tournamentId, freeFireId }
\* of registrations
RegistrationIndexViolated(docs, doc) ==
    \/ \E r \in docs : r.userId = doc.userId /\ r.tournamentId = doc.tournamentId
    \/ \E r \in docs : r.tournamentId = doc.tournamentId /\ r.freeFireId = doc.freeFireId

(***************************************************************************)
(* Deposit-first deduction of the register handler                         *)
(***************************************************************************)
\* the deduction with "remainingFee -= user.depositAmount" left out: the
\* whole fee is taken from the winning balance again
RegisterDeductWholeFee(user, entryFee) ==
    LET totalBalance == user.depositAmount + user.winningAmount
        covered == user.depositAmount >= entryFee
    IN  IF totalBalance < entryFee
        THEN [outcome |-> "insufficient", deductedFromDeposit |-> 0,
              deductedFromWinning |-> 0, user |-> user]
        ELSE IF covered
        THEN [outcome |-> "ok", deductedFromDeposit |-> entryFee,
              deductedFromWinning |-> 0,
              user |-> [user EXCEPT !.depositAmount = @ - entryFee]]
        ELSE IF user.winningAmount >= entryFee
        THEN [outcome |-> "ok", deductedFromDeposit |-> user.depositAmount,
              deductedFromWinning |-> entryFee,
              user |-> [depositAmount |-> 0,
                        winningAmount |-> user.winningAmount - entryFee]]
        ELSE [outcome |-> "error", deductedFromDeposit |-> user.depositAmount,
              deductedFromWinning |-> 0,
              user |-> [user EXCEPT !.depositAmount = 0]]

\* the deduction without the check of the total balance against the fee
RegisterDeductUnchecked(user, entryFee) ==
    LET fromDeposit  == IF user.depositAmount >= entryFee
                           THEN entryFee ELSE user.depositAmount
        deposit      == IF user.depositAmount >= entryFee
                           THEN user.depositAmount - entryFee ELSE 0
        remainingFee == IF user.depositAmount >= entryFee
                           THEN 0 ELSE entryFee - user.depositAmount
    IN  IF remainingFee > 0
        THEN IF user.winningAmount >= remainingFee
             THEN [outcome |-> "ok", deductedFromDeposit |-> fromDeposit,
                   deductedFromWinning |-> remainingFee,
                   user |-> [depositAmount |-> deposit,
                             winningAmount |-> user.winningAmount - remainingFee]]
             ELSE [outcome |-> "error", deductedFromDeposit |-> fromDeposit,
                   deductedFromWinning |-> 0,
                   user |-> [depositAmount |-> deposit,
                             winningAmount |-> user.winningAmount]]
        ELSE [outcome |-> "ok", deductedFromDeposit |-> fromDeposit,
              deductedFromWinning |-> 0,
              user |-> [depositAmount |-> deposit,
                        winningAmount |-> user.winningAmount]]

RegisterDeduct(user, entryFee) ==
    LET totalBalance == user.depositAmount + user.winningAmount
        fromDeposit  == IF user.depositAmount >= entryFee
                           THEN entryFee ELSE user.depositAmount
        deposit      == IF user.depositAmount >= entryFee
                           THEN user.depositAmount - entryFee ELSE 0
        remainingFee == IF user.depositAmount >= entryFee
                           THEN 0 ELSE entryFee - user.depositAmount
    IN  IF totalBalance < entryFee
        THEN [outcome |-> "insufficient", deductedFromDeposit |-> 0,
              deductedFromWinning |-> 0, user |-> user]
        ELSE IF remainingFee > 0
        THEN IF user.winningAmount >= remainingFee
             THEN [outcome |-> "ok", deductedFromDeposit |-> fromDeposit,
                   deductedFromWinning |-> remainingFee,
                   user |-> [depositAmount |-> deposit,
                             winningAmount |-> user.winningAmount - remainingFee]]
             ELSE [outcome |-> "error", deductedFromDeposit |-> fromDeposit,
                   deductedFromWinning |-> 0,
                   user |-> [depositAmount |-> deposit,
                             winningAmount |-> user.winningAmount]]
        ELSE [outcome |-> "ok", deductedFromDeposit |-> fromDeposit,
              deductedFromWinning |-> 0,
              user |-> [depositAmount |-> deposit,
                        winningAmount |-> user.winningAmount]]

(***************************************************************************)
(* POST /admin/award-winnings: the loop over the winners                   *)
(***************************************************************************)
\* results.push({ userId, success: false, error })
AwardFailure(userId, error) ==
    [userId |-> userId, success |-> FALSE, error |-> error, amount |-> 0,
     newWinningBalance |-> 0, newTotalBalance |-> 0]

\* results.push({ userId, success: true, amount, newWinningBalance,
\* newTotalBalance }), from the user document the handler holds
AwardSuccess(userId, amount, user) ==
    [userId |-> userId, success |-> TRUE, error |-> "none", amount |-> amount,
     newWinningBalance |-> user.winningAmount,
     newTotalBalance |-> user.depositAmount + user.winningAmount]

\* the loop ending at the first winner that fails
AwardStopAtFailure(call) ==
    IF Len(call.results) = Len(call.winners)
          \/ (call.results # <<>> /\ ~call.results[Len(call.results)].success)
    THEN Respond(call, 200, "Winnings processed")
    ELSE [call EXCEPT !.pc = "awardFindUser"]

\* After a result was pushed: the next winner's User.findById, or, the
\* list being exhausted, res.json({ message: 'Winnings processed', ... }).
AwardContinue(call) ==
    IF Len(call.results) = Len(call.winners)
    THEN Respond(call, 200, "Winnings processed")
    ELSE [call EXCEPT !.pc = "awardFindUser"]

\* the ledger reference of a winner, `${tournamentId}_${userId}_${position}`
AwardReference(tournamentId, userId, position) ==
    tournamentId \o "_" \o userId \o "_" \o ToString(position)


(***************************************************************************)
(* logTransaction, called by the handlers                                  *)
(***************************************************************************)
\* the register handler without its try/catch around logTransaction: a
\* throw reaches the handler's outer catch
AfterLogTransactionUncaught(call) ==
    IF call.logResult = "threw"
    THEN Respond(call, 500, "Server error")
    ELSE IF call.kind = "register"
    THEN [call EXCEPT !.pc = "saveRegistration"]
    ELSE Respond(call, 201, "Transaction logged successfully")


\* the register handler going from the ledger straight to the tournament's
\* occupancy, saving no Registration record before it
AfterLogTransactionSkipsRecord(call) ==
    IF call.kind = "register"
    THEN [call EXCEPT !.pc = "saveTournament"]
    ELSE Respond(call, 201, "Transaction logged successfully")


\* The caller's code after its await of logTransaction: the register handler
\* catches a throw and goes on to the Registration record; the admin
\* handler answers, a throw reaching its outer catch.
AfterLogTransaction(call) ==
    CASE call.kind = "register" -> [call EXCEPT !.pc = "saveRegistration"]
      [] call.kind = "admin" ->
            IF call.logResult # "threw"
            THEN Respond(call, 201, "Transaction logged successfully")
            ELSE IF call.logError = "E11000"
            THEN Respond(call, 400, "Transaction with this reference already exists")
            ELSE Respond(call, 500, "Server error")
      [] call.kind = "award" ->
            AwardContinue(
                [call EXCEPT !.results = Append(@,
                    IF call.logResult # "threw"
                    THEN AwardSuccess(call.tx.userId, call.tx.amount, call.user)
                    ELSE AwardFailure(call.tx.userId, "Failed to log transaction"))])
      [] call.kind = "verify" ->
            [Respond(call, 200, "Payment verified and wallet updated successfully")
                EXCEPT !.newBalance = call.user.depositAmount
                                         + call.user.winningAmount]
      [] OTHER -> call

\* const existingTransaction = await Transaction.findOne(...); if found,
\* it is returned, otherwise the new document is built and its save begins.
LogFindOne(c) ==
    /\ c \in DOMAIN calls
    /\ calls[c].pc = "logFindOne"
    /\ LET found == FindTransactions(ledger, calls[c].tx)
       IN  IF found # {}
           THEN \E existingTransaction \in found :
                    calls' = [calls EXCEPT ![c] = AfterLogTransaction(
                                 [@ EXCEPT !.logResult = "existing",
                                           !.logReturn = existingTransaction])]
           ELSE calls' = [calls EXCEPT ![c].pc = "logSave"]
    /\ UNCHANGED <<users, tournaments, ledger, registrations, split>>

\* await transaction.save(): validation, then the insert under the unique
\* index; either failure is rethrown to the caller.
LogSave(c) ==
    /\ c \in DOMAIN calls
    /\ calls[c].pc = "logSave"
    /\ LET args == calls[c].tx
           transaction == [id |-> c, userId |-> args.userId, type |-> args.type,
                           amount |-> args.amount, description |-> args.description,
                           reference |-> args.reference,
                           referenceType |-> args.referenceType,
                           status |-> "completed"]
       IN  IF ~TransactionValid(transaction)
           THEN /\ calls' = [calls EXCEPT ![c] = AfterLogTransaction(
                                [@ EXCEPT !.logResult = "threw",
                                          !.logError = "ValidationError"])]
                /\ UNCHANGED ledger
           ELSE IF TransactionIndexViolated(ledger, transaction)
           THEN /\ calls' = [calls EXCEPT ![c] = AfterLogTransaction(
                                [@ EXCEPT !.logResult = "threw",
                                          !.logError = "E11000"])]
                /\ UNCHANGED ledger
           ELSE /\ ledger' = ledger \cup {transaction}
                /\ calls' = [calls EXCEPT ![c] = AfterLogTransaction(
                                [@ EXCEPT !.logResult = "inserted",
                                          !.logReturn = transaction])]
    /\ UNCHANGED <<users, tournaments, registrations, split>>

\* The database operation logTransaction awaits (the findOne or the save)
\* is rejected, the connection being lost or the server failing: the catch
\* of logTransaction logs the error and rethrows it.
LogTransactionFails(c) ==
    /\ c \in DOMAIN calls
    /\ calls[c].pc \in {"logFindOne", "logSave"}
    /\ calls' = [calls EXCEPT ![c] = AfterLogTransaction(
                    [@ EXCEPT !.logResult = "threw", !.logError = "MongoError"])]
    /\ UNCHANGED <<users, tournaments, ledger, registrations, split>>


(***************************************************************************)
(* POST /tournaments/:id/register                                          *)
(***************************************************************************)
\* the handler asking for a team in 2v2 and 4v4 tournaments only
TeamSizesWithTeamsUpTo4 == {"2v2", "4v4"}


TeamSizesWithTeams == {"2v2", "4v4", "6v6"}

TeamNames == {"team_a", "team_b"}

\* the handler validating the request body before it looks at the
\* tournament's status, capacity and registered users
RegisterFindTournamentValidatesFirst(c, userId, id, body) ==
    /\ MayArrive(c)
    /\ LET tournament == tournaments[id]
           call == [IdleCall EXCEPT !.kind = "register", !.userId = userId,
                                    !.tournamentId = id]
           freeFireId == body.freeFireId
           requiresTeamSelection == tournament.teamSize \in TeamSizesWithTeams
       IN  calls' = [calls EXCEPT ![c] =
             IF ~tournament.exists
                THEN Respond(call, 404, "Tournament not found")
             ELSE IF ~freeFireId.given \/ freeFireId.str = <<>>
                                       \/ Trim(freeFireId.str) = <<>>
                THEN Respond(call, 400, "Free Fire ID is required")
             ELSE IF ~Truthy(body.termsAccepted)
                THEN Respond(call, 400, "You must accept the terms and conditions")
             ELSE IF ~AllDigits(Trim(freeFireId.str))
                THEN Respond(call, 400, "Free Fire ID must contain only numbers")
             ELSE IF requiresTeamSelection /\ body.teamSelection \notin TeamNames
                THEN Respond(call, 400,
                       "Valid team selection is required for this tournament type")
             ELSE IF tournament.status # "upcoming"
                THEN Respond(call, 400, "Tournament registration is closed")
             ELSE IF tournament.registeredPlayers >= tournament.maxSlots
                THEN Respond(call, 400, "Tournament is full")
             ELSE IF Includes(tournament.registeredUsers, userId)
                THEN Respond(call, 400, "Already registered for this tournament")
             ELSE [call EXCEPT !.pc = "findUser",
                               !.freeFireId = Trim(freeFireId.str),
                               !.teamSelection = IF requiresTeamSelection
                                                    THEN body.teamSelection ELSE "null",
                               !.registeredPlayers = tournament.registeredPlayers,
                               !.entryFee = tournament.entryFee]]
    /\ UNCHANGED <<users, tournaments, ledger, registrations, split>>


\* The request arrives: Tournament.findById and every check made before the
\* user is loaded.  body.freeFireId is [given, str]; a missing teamSelection
\* is "null".
RegisterFindTournament(c, userId, id, body) ==
    /\ MayArrive(c)
    /\ LET tournament == tournaments[id]
           call == [IdleCall EXCEPT !.kind = "register", !.userId = userId,
                                    !.tournamentId = id]
           freeFireId == body.freeFireId
           requiresTeamSelection == tournament.teamSize \in TeamSizesWithTeams
       IN  calls' = [calls EXCEPT ![c] =
             IF ~tournament.exists
                THEN Respond(call, 404, "Tournament not found")
             ELSE IF tournament.status # "upcoming"
                THEN Respond(call, 400, "Tournament registration is closed")
             ELSE IF tournament.registeredPlayers >= tournament.maxSlots
                THEN Respond(call, 400, "Tournament is full")
             ELSE IF Includes(tournament.registeredUsers, userId)
                THEN Respond(call, 400, "Already registered for this tournament")
             ELSE IF ~freeFireId.given \/ freeFireId.str = <<>>
                                       \/ Trim(freeFireId.str) = <<>>
                THEN Respond(call, 400, "Free Fire ID is required")
             ELSE IF ~Truthy(body.termsAccepted)
                THEN Respond(call, 400, "You must accept the terms and conditions")
             ELSE IF ~AllDigits(Trim(freeFireId.str))
                THEN Respond(call, 400, "Free Fire ID must contain only numbers")
             ELSE IF requiresTeamSelection /\ body.teamSelection \notin TeamNames
                THEN Respond(call, 400,
                       "Valid team selection is required for this tournament type")
             ELSE [call EXCEPT !.pc = "findUser",
                               !.freeFireId = Trim(freeFireId.str),
                               !.teamSelection = IF requiresTeamSelection
                                                    THEN body.teamSelection ELSE "null",
                               !.registeredPlayers = tournament.registeredPlayers,
                               !.entryFee = tournament.entryFee]]
    /\ UNCHANGED <<users, tournaments, ledger, registrations, split>>

\* the handler taking what the user has before it finds the balance too
\* small for the fee
RegisterFindUserTakesBalance(c) ==
    /\ c \in DOMAIN calls
    /\ calls[c].kind = "register"
    /\ calls[c].pc = "findUser"
    /\ LET call == calls[c]
       IN  IF call.userId \notin DOMAIN users
           THEN /\ calls' = [calls EXCEPT ![c] = Respond(call, 404, "User not found")]
                /\ UNCHANGED users
           ELSE LET user == users[call.userId]
                    d == RegisterDeduct(user, call.entryFee)
                IN  IF d.outcome = "insufficient"
                    THEN /\ users' = [users EXCEPT ![call.userId] = NoBalance]
                         /\ calls' = [calls EXCEPT ![c] =
                                         Respond(call, 400, "Insufficient balance")]
                    ELSE /\ UNCHANGED users
                         /\ calls' = [calls EXCEPT ![c] =
                               [call EXCEPT !.pc = "saveUser",
                                            !.userRead = user,
                                            !.user = d.user,
                                            !.deductedFromDeposit = d.deductedFromDeposit,
                                            !.deductedFromWinning = d.deductedFromWinning]]
    /\ UNCHANGED <<tournaments, ledger, registrations, split>>


\* The handler after User.findById returned: 404 without a user, the balance
\* check, and the deduction on the loaded document.
FoundUser(call) ==
    IF call.userId \notin DOMAIN users
       THEN Respond(call, 404, "User not found")
    ELSE LET user == users[call.userId]
             d == RegisterDeduct(user, call.entryFee)
         IN  CASE d.outcome = "insufficient" ->
                     Respond(call, 400, "Insufficient balance")
               [] d.outcome = "error" ->
                     Respond(call, 400, "Balance calculation error")
               [] OTHER ->
                     [call EXCEPT !.pc = "saveUser",
                                  !.userRead = user,
                                  !.user = d.user,
                                  !.deductedFromDeposit = d.deductedFromDeposit,
                                  !.deductedFromWinning = d.deductedFromWinning]

\* User.findById, the balance check and the deduction on the loaded document.
RegisterFindUser(c) ==
    /\ c \in DOMAIN calls
    /\ calls[c].kind = "register"
    /\ calls[c].pc = "findUser"
    /\ calls' = [calls EXCEPT ![c] = FoundUser(calls[c])]
    /\ UNCHANGED <<users, tournaments, ledger, registrations, split>>

\* await user.save(), then logTransaction is called with the entry fee.
RegisterSaveUser(c) ==
    /\ c \in DOMAIN calls
    /\ calls[c].kind = "register"
    /\ calls[c].pc = "saveUser"
    /\ LET call == calls[c]
       IN  /\ users' = [users EXCEPT ![call.userId] =
                            UserSave(@, call.userRead, call.user)]
           /\ calls' = [calls EXCEPT ![c] =
                 [call EXCEPT !.pc = "logFindOne",
                              !.tx = [userId |-> call.userId,
                                      type |-> "entry_fee",
                                      amount |-> 0 - call.entryFee,
                                      description |-> "Entry fee for tournament",
                                      reference |-> call.tournamentId,
                                      referenceType |-> "tournament_id"]]]
    /\ UNCHANGED <<tournaments, ledger, registrations, split>>

\* new Registration({ ... }): the record register call c is about to save.
RegistrationOf(c) ==
    [id |-> c, userId |-> calls[c].userId,
     tournamentId |-> calls[c].tournamentId,
     freeFireId |-> calls[c].freeFireId,
     teamSelection |-> calls[c].teamSelection,
     entryFee |-> calls[c].entryFee]

\* await registration.save(): a unique-index violation (code 11000) reaches
\* the handler's catch.
RegisterSaveRegistration(c) ==
    /\ c \in DOMAIN calls
    /\ calls[c].kind = "register"
    /\ calls[c].pc = "saveRegistration"
    /\ LET call == calls[c]
           registration == [id |-> c, userId |-> call.userId,
                            tournamentId |-> call.tournamentId,
                            freeFireId |-> call.freeFireId,
                            teamSelection |-> call.teamSelection,
                            entryFee |-> call.entryFee]
       IN  IF RegistrationIndexViolated(registrations, registration)
           THEN /\ calls' = [calls EXCEPT ![c] = Respond(call, 400,
                                "You are already registered for this tournament")]
                /\ UNCHANGED registrations
           ELSE /\ registrations' = registrations \cup {registration}
                /\ calls' = [calls EXCEPT ![c].pc = "saveTournament"]
    /\ UNCHANGED <<users, tournaments, ledger, split>>

\* registeredUsers.push, registeredPlayers += 1, await tournament.save() and
\* the success response.  When the tournament was deleted meanwhile the
\* update matches no document: Mongoose either rejects the save
\* (DocumentNotFoundError, answered 500) or resolves it, by its version.
RegisterSaveTournament(c) ==
    /\ c \in DOMAIN calls
    /\ calls[c].kind = "register"
    /\ calls[c].pc = "saveTournament"
    /\ LET call == calls[c]
           success == [Respond(call, 200, "Successfully registered for tournament")
                          EXCEPT !.registeredPlayers = call.registeredPlayers + 1,
                                 !.newBalance = call.user.depositAmount
                                                  + call.user.winningAmount]
       IN  IF tournaments[call.tournamentId].exists
           THEN /\ tournaments' = [tournaments EXCEPT ![call.tournamentId] =
                       TournamentSave(@, call.userId, call.registeredPlayers + 1)]
                /\ calls' = [calls EXCEPT ![c] = success]
           ELSE /\ UNCHANGED tournaments
                /\ \/ calls' = [calls EXCEPT ![c] = success]
                   \/ calls' = [calls EXCEPT ![c] = Respond(call, 500, "Server error")]
    /\ UNCHANGED <<users, ledger, registrations, split>>

\* What the handler answers with: the status, the message and, on success,
\* the deductions and the new balance.
RegisterOutcome(status, message, deductedFromDeposit, deductedFromWinning, newBalance) ==
    [status |-> status, message |-> message,
     deductedFromDeposit |-> deductedFromDeposit,
     deductedFromWinning |-> deductedFromWinning, newBalance |-> newBalance]

\* The register handler run from its first line to its response with no
\* other request in between, on the collections in stores: the collections
\* it leaves and what it answers.  c numbers the request.
RegisterAlone(stores, c, userId, id, body) ==
    LET tournament == stores.tournaments[id]
        freeFireId == body.freeFireId
        requiresTeamSelection == tournament.teamSize \in TeamSizesWithTeams
        Rejected(status, message) ==
            [stores |-> stores, outcome |-> RegisterOutcome(status, message, 0, 0, 0)]
    IN  IF ~tournament.exists
           THEN Rejected(404, "Tournament not found")
        ELSE IF tournament.status # "upcoming"
           THEN Rejected(400, "Tournament registration is closed")
        ELSE IF tournament.registeredPlayers >= tournament.maxSlots
           THEN Rejected(400, "Tournament is full")
        ELSE IF Includes(tournament.registeredUsers, userId)
           THEN Rejected(400, "Already registered for this tournament")
        ELSE IF ~freeFireId.given \/ freeFireId.str = <<>>
                                  \/ Trim(freeFireId.str) = <<>>
           THEN Rejected(400, "Free Fire ID is required")
        ELSE IF ~Truthy(body.termsAccepted)
           THEN Rejected(400, "You must accept the terms and conditions")
        ELSE IF ~AllDigits(Trim(freeFireId.str))
           THEN Rejected(400, "Free Fire ID must contain only numbers")
        ELSE IF requiresTeamSelection /\ body.teamSelection \notin TeamNames
           THEN Rejected(400,
                  "Valid team selection is required for this tournament type")
        ELSE IF userId \notin DOMAIN stores.users
           THEN Rejected(404, "User not found")
        ELSE
        LET user == stores.users[userId]
            d == RegisterDeduct(user, tournament.entryFee)
        IN  IF d.outcome = "insufficient"
               THEN Rejected(400, "Insufficient balance")
            ELSE IF d.outcome = "error"
               THEN Rejected(400, "Balance calculation error")
            ELSE
            LET args == [userId |-> userId, type |-> "entry_fee",
                         amount |-> 0 - tournament.entryFee,
                         description |-> "Entry fee for tournament",
                         reference |-> id, referenceType |-> "tournament_id"]
                transaction == [id |-> c, userId |-> userId, type |-> args.type,
                                amount |-> args.amount,
                                description |-> args.description,
                                reference |-> args.reference,
                                referenceType |-> args.referenceType,
                                status |-> "completed"]
                registration == [id |-> c, userId |-> userId, tournamentId |-> id,
                                 freeFireId |-> Trim(freeFireId.str),
                                 teamSelection |-> IF requiresTeamSelection
                                                      THEN body.teamSelection
                                                      ELSE "null",
                                 entryFee |-> tournament.entryFee]
                saved == [stores EXCEPT
                            !.users[userId] = UserSave(@, user, d.user),
                            !.ledger =
                                IF \/ FindTransactions(@, args) # {}
                                   \/ ~TransactionValid(transaction)
                                   \/ TransactionIndexViolated(@, transaction)
                                THEN @ ELSE @ \cup {transaction}]
            IN  IF RegistrationIndexViolated(stores.registrations, registration)
                THEN [stores |-> saved,
                      outcome |-> RegisterOutcome(400,
                          "You are already registered for this tournament",
                          d.deductedFromDeposit, d.deductedFromWinning, 0)]
                ELSE [stores |-> [saved EXCEPT
                          !.registrations = @ \cup {registration},
                          !.tournaments[id] = TournamentSave(@, userId,
                                                 tournament.registeredPlayers + 1)],
                      outcome |-> RegisterOutcome(200,
                          "Successfully registered for tournament",
                          d.deductedFromDeposit, d.deductedFromWinning,
                          d.user.depositAmount + d.user.winningAmount)]


(***************************************************************************)
(* Profiles and the snapshots of Registration records                      *)
(***************************************************************************)
\* In the snapshot specification split holds what the other specifications
\* leave out of the documents: profiles, the fullname of each User document;
\* loaded, the fullname in the user document each register call holds; and
\* metadata, the metadata.userSnapshot of each Registration record, by the
\* record's id.

\* User.findById of the register handler: the loaded document carries the
\* user's profile as it is now.
SnapshotFindUser(c) ==
    /\ c \in DOMAIN calls
    /\ calls[c].kind = "register"
    /\ calls[c].pc = "findUser"
    /\ calls' = [calls EXCEPT ![c] = FoundUser(calls[c])]
    /\ split' = [split EXCEPT !.loaded[c] =
                    IF calls[c].userId \in DOMAIN users
                    THEN split.profiles[calls[c].userId] ELSE "none"]
    /\ UNCHANGED <<users, tournaments, ledger, registrations>>

\* new Registration({ ..., metadata: { userSnapshot: { fullname:
\* user.fullname, ... }, ... } }) and await registration.save(): the snapshot
\* is copied from the document the handler loaded.
SnapshotSaveRegistration(c) ==
    /\ c \in DOMAIN calls
    /\ calls[c].kind = "register"
    /\ calls[c].pc = "saveRegistration"
    /\ IF RegistrationIndexViolated(registrations, RegistrationOf(c))
       THEN /\ calls' = [calls EXCEPT ![c] = Respond(calls[c], 400,
                            "You are already registered for this tournament")]
            /\ UNCHANGED <<registrations, split>>
       ELSE /\ registrations' = registrations \cup {RegistrationOf(c)}
            /\ split' = [split EXCEPT !.metadata = @ \cup
                            {[id |-> c,
                              userSnapshot |-> [fullname |-> split.loaded[c]]]}]
            /\ calls' = [calls EXCEPT ![c].pc = "saveTournament"]
    /\ UNCHANGED <<users, tournaments, ledger>>

\* PUT /profile with a fullname: user.fullname = fullname; await user.save()
\* writes the changed path of the User document and no other document.
PutProfile(userId, fullname) ==
    /\ userId \in DOMAIN users
    /\ split.profiles[userId] # fullname
    /\ split' = [split EXCEPT !.profiles[userId] = fullname]
    /\ UNCHANGED <<users, tournaments, ledger, registrations, calls>>


(***************************************************************************)
(* GET /tournaments/:tournamentId/room                                     *)
(***************************************************************************)
\* the endpoint showing the room whatever the tournament's status
RoomStatusesAny == {"upcoming", "active", "completed"}

\* the statuses in which the room details are shown
RoomStatuses == {"active", "completed"}

\* The response of the room endpoint to caller userId, tournament being the
\* document Tournament.findById returned (exists FALSE: none): the HTTP
\* status and the JSON body.
RoomResponse(tournament, userId) ==
    IF ~tournament.exists
       THEN [status |-> 404, body |-> [message |-> "Tournament not found"]]
    ELSE IF ~Includes(tournament.registeredUsers, userId)
       THEN [status |-> 403,
             body |-> [message |-> "You are not registered for this tournament"]]
    ELSE IF tournament.status \notin RoomStatuses
       THEN [status |-> 400,
             body |-> [message |-> "Room details are not available yet"]]
    ELSE [status |-> 200,
          body |-> [roomId |-> tournament.roomId,
                    roomPassword |-> tournament.roomPassword,
                    status |-> tournament.status]]

\* the room endpoint answers the request held in split
ComputeRoom ==
    /\ split.phase = "room input"
    /\ split' = [split EXCEPT !.phase = "room output",
                              !.response = RoomResponse(split.tournament, split.userId)]
    /\ UNCHANGED <<users, tournaments, ledger, registrations, calls>>


(***************************************************************************)
(* A stop of the server process                                            *)
(***************************************************************************)
\* The process stops (a crash, a kill, a restart) while handlers are waiting
\* for a database operation: every handler in flight is abandoned where it
\* stands, and what it has saved so far stays in the database.  Requests
\* that arrive later are served by the restarted process.
ProcessStops ==
    /\ \E c \in DOMAIN calls : calls[c].pc \notin {"idle", "done", "abandoned"}
    /\ calls' = [c \in DOMAIN calls |->
                    IF calls[c].pc \in {"idle", "done", "abandoned"}
                    THEN calls[c]
                    ELSE [calls[c] EXCEPT !.pc = "abandoned"]]
    /\ UNCHANGED <<users, tournaments, ledger, registrations, split>>


(***************************************************************************)
(* DELETE /admin/tournaments/:id                                           *)
(***************************************************************************)
\* the deletion taking the tournament's Registration records with it
DeleteTournamentCascade(id) ==
    /\ tournaments[id].exists
    /\ tournaments' = [tournaments EXCEPT ![id] = DeletedTournament]
    /\ registrations' = {r \in registrations : r.tournamentId # id}
    /\ UNCHANGED <<users, ledger, calls, split>>


DeleteTournament(id) ==
    /\ tournaments[id].exists
    /\ tournaments' = [tournaments EXCEPT ![id] = DeletedTournament]
    /\ UNCHANGED <<users, ledger, registrations, calls, split>>

(***************************************************************************)
(* POST /admin/transactions                                                *)
(***************************************************************************)
Abs(x) == IF x < 0 THEN 0 - x ELSE x

TransactionTypes == {"deposit", "winning", "entry_fee", "withdrawal"}

\* The balance update of the manual transaction on the loaded document.
AdminApply(user, type, amount) ==
    CASE type = "deposit" ->
            [outcome |-> "ok",
             user |-> [user EXCEPT !.depositAmount = @ + amount]]
      [] type = "winning" ->
            [outcome |-> "ok",
             user |-> [user EXCEPT !.winningAmount = @ + amount]]
      [] OTHER ->
            LET totalBalance == user.depositAmount + user.winningAmount
                remainingAmount == Abs(amount)
            IN  IF totalBalance < Abs(amount)
                THEN [outcome |-> "insufficient", user |-> user]
                ELSE IF user.depositAmount >= remainingAmount
                THEN [outcome |-> "ok",
                      user |-> [user EXCEPT !.depositAmount = @ - remainingAmount]]
                ELSE [outcome |-> "ok",
                      user |-> [depositAmount |-> 0,
                                winningAmount |-> user.winningAmount
                                    - (remainingAmount - user.depositAmount)]]

\* The request arrives (an administrator's token): validation of the body,
\* User.findById and the balance update on the loaded document.  A missing
\* field is modelled by amount 0, which !amount rejects.
AdminFindUser(c, body) ==
    /\ MayArrive(c)
    /\ LET call == [IdleCall EXCEPT !.kind = "admin", !.userId = body.userId]
       IN  calls' = [calls EXCEPT ![c] =
             IF body.amount = 0
                THEN Respond(call, 400, "Missing required fields")
             ELSE IF body.type \notin TransactionTypes
                THEN Respond(call, 400, "Invalid transaction type")
             ELSE IF body.userId \notin DOMAIN users
                THEN Respond(call, 404, "User not found")
             ELSE LET user == users[body.userId]
                      a == AdminApply(user, body.type, body.amount)
                  IN  IF a.outcome = "insufficient"
                      THEN Respond(call, 400, "Insufficient balance")
                      ELSE [call EXCEPT
                              !.pc = "saveUser",
                              !.userRead = user,
                              !.user = a.user,
                              !.tx = [userId |-> body.userId,
                                      type |-> body.type,
                                      amount |-> IF body.type \in {"entry_fee", "withdrawal"}
                                                    THEN 0 - Abs(body.amount)
                                                    ELSE body.amount,
                                      description |-> body.description,
                                      reference |-> body.reference,
                                      referenceType |-> body.referenceType]]]
    /\ UNCHANGED <<users, tournaments, ledger, registrations, split>>

\* await user.save(), then logTransaction is called.
AdminSaveUser(c) ==
    /\ c \in DOMAIN calls
    /\ calls[c].kind = "admin"
    /\ calls[c].pc = "saveUser"
    /\ LET call == calls[c]
       IN  /\ users' = [users EXCEPT ![call.userId] =
                            UserSave(@, call.userRead, call.user)]
           /\ calls' = [calls EXCEPT ![c] =
                 [call EXCEPT !.pc = "logFindOne",
                              !.newBalance = call.user.depositAmount
                                               + call.user.winningAmount]]
    /\ UNCHANGED <<tournaments, ledger, registrations, split>>

(***************************************************************************)
(* POST /admin/award-winnings                                              *)
(***************************************************************************)
\* the handler without its test of the tournament's status
AwardFindTournamentAnyStatus(c, body) ==
    /\ MayArrive(c)
    /\ LET call == [IdleCall EXCEPT !.kind = "award",
                                    !.tournamentId = body.tournamentId]
       IN  calls' = [calls EXCEPT ![c] =
             IF body.tournamentId = "" \/ ~body.winners.isArray
                THEN Respond(call, 400, "Invalid request data")
             ELSE IF ~tournaments[body.tournamentId].exists
                THEN Respond(call, 404, "Tournament not found")
             ELSE AwardContinue([call EXCEPT !.winners = body.winners.list])]
    /\ UNCHANGED <<users, tournaments, ledger, registrations, split>>

\* The request of an administrator arrives: the validation of the body,
\* Tournament.findById and the test of its status; then the loop begins.
\* body.winners is [isArray, list].
AwardFindTournament(c, body) ==
    /\ MayArrive(c)
    /\ LET call == [IdleCall EXCEPT !.kind = "award",
                                    !.tournamentId = body.tournamentId]
       IN  calls' = [calls EXCEPT ![c] =
             IF body.tournamentId = "" \/ ~body.winners.isArray
                THEN Respond(call, 400, "Invalid request data")
             ELSE IF ~tournaments[body.tournamentId].exists
                THEN Respond(call, 404, "Tournament not found")
             ELSE IF tournaments[body.tournamentId].status # "completed"
                THEN Respond(call, 400, "Tournament is not completed")
             ELSE AwardContinue([call EXCEPT !.winners = body.winners.list])]
    /\ UNCHANGED <<users, tournaments, ledger, registrations, split>>

\* const user = await User.findById(userId) for the next winner: a missing
\* user gets a failure result and the loop continues; otherwise
\* user.winningAmount += amount and the save begins.
AwardFindUser(c) ==
    /\ c \in DOMAIN calls
    /\ calls[c].kind = "award"
    /\ calls[c].pc = "awardFindUser"
    /\ LET call == calls[c]
           winner == call.winners[Len(call.results) + 1]
       IN  calls' = [calls EXCEPT ![c] =
             IF winner.userId \notin DOMAIN users
                THEN AwardContinue([call EXCEPT !.results = Append(@,
                         AwardFailure(winner.userId, "User not found"))])
             ELSE LET user == users[winner.userId]
                  IN  [call EXCEPT !.pc = "awardSaveUser",
                                   !.userId = winner.userId,
                                   !.userRead = user,
                                   !.user = [user EXCEPT !.winningAmount =
                                                @ + winner.amount]]]
    /\ UNCHANGED <<users, tournaments, ledger, registrations, split>>

\* await user.save(), then logTransaction is called with the winning.
AwardSaveUser(c) ==
    /\ c \in DOMAIN calls
    /\ calls[c].kind = "award"
    /\ calls[c].pc = "awardSaveUser"
    /\ LET call == calls[c]
           winner == call.winners[Len(call.results) + 1]
       IN  /\ users' = [users EXCEPT ![winner.userId] =
                            UserSave(@, call.userRead, call.user)]
           /\ calls' = [calls EXCEPT ![c] =
                 [call EXCEPT !.pc = "logFindOne",
                              !.logResult = "none",
                              !.logError = "none",
                              !.logReturn = NoTransaction,
                              !.tx = [userId |-> winner.userId,
                                      type |-> "winning",
                                      amount |-> winner.amount,
                                      description |-> "Tournament winnings",
                                      reference |-> AwardReference(call.tournamentId,
                                                       winner.userId, winner.position),
                                      referenceType |-> "tournament_id"]]]
    /\ UNCHANGED <<tournaments, ledger, registrations, split>>


(***************************************************************************)
(* POST /verify-payment                                                    *)
(***************************************************************************)
\* process.env.RAZORPAY_KEY_SECRET
KeySecret == "secret"

\* crypto.createHmac('sha256', key).update(message).digest('hex'): equal
\* digests come from equal keys and messages
Hmac(key, message) == <<"sha256", key, message>>

\* the payments Razorpay holds, amounts in paisa
Payments ==
    [pay1 |-> [amount |-> 200], pay2 |-> [amount |-> 100]]

\* The request arrives: the signature and the receipt are checked, then
\* razorpay.payments.fetch gives the payment, whose amount is converted from
\* paisa to rupees.
VerifyFetchPayment(c, userId, body) ==
    /\ MayArrive(c)
    /\ LET call == [IdleCall EXCEPT !.kind = "verify", !.userId = userId,
                                    !.paymentId = body.razorpay_payment_id]
           sign == body.razorpay_order_id \o "|" \o body.razorpay_payment_id
           expectedSign == Hmac(KeySecret, sign)
       IN  calls' = [calls EXCEPT ![c] =
             IF body.razorpay_signature # expectedSign
                THEN Respond(call, 400, "Payment verification failed")
             ELSE IF Len(body.receipt) # 3
                THEN Respond(call, 400, "Invalid receipt format")
             ELSE [call EXCEPT !.pc = "verifyFindUser",
                               !.amount = Payments[body.razorpay_payment_id].amount
                                             \div 100]]
    /\ UNCHANGED <<users, tournaments, ledger, registrations, split>>

\* const user = await User.findById(req.user.userId), then
\* user.depositAmount += amount and the save begins.
VerifyFindUser(c) ==
    /\ c \in DOMAIN calls
    /\ calls[c].kind = "verify"
    /\ calls[c].pc = "verifyFindUser"
    /\ LET call == calls[c]
       IN  calls' = [calls EXCEPT ![c] =
             IF call.userId \notin DOMAIN users
                THEN Respond(call, 404, "User not found")
             ELSE LET user == users[call.userId]
                  IN  [call EXCEPT !.pc = "verifySaveUser",
                                   !.userRead = user,
                                   !.user = [user EXCEPT !.depositAmount =
                                                @ + call.amount]]]
    /\ UNCHANGED <<users, tournaments, ledger, registrations, split>>

\* await user.save(), then logTransaction is called with the deposit.
VerifySaveUser(c) ==
    /\ c \in DOMAIN calls
    /\ calls[c].kind = "verify"
    /\ calls[c].pc = "verifySaveUser"
    /\ LET call == calls[c]
       IN  /\ users' = [users EXCEPT ![call.userId] =
                            UserSave(@, call.userRead, call.user)]
           /\ calls' = [calls EXCEPT ![c] =
                 [call EXCEPT !.pc = "logFindOne",
                              !.tx = [userId |-> call.userId,
                                      type |-> "deposit",
                                      amount |-> call.amount,
                                      description |-> "Wallet deposit via Razorpay",
                                      reference |-> call.paymentId,
                                      referenceType |-> "payment_id"]]]
    /\ UNCHANGED <<tournaments, ledger, registrations, split>>


(***************************************************************************)
(* The deduction split on its own                                          *)
(***************************************************************************)
NoSplit ==
    [phase |-> "none", user |-> NoBalance, entryFee |-> 0,
     result |-> RegisterDeduct(NoBalance, 0)]

ComputeSplit ==
    /\ split.phase = "input"
    /\ split' = [split EXCEPT !.phase = "output",
                              !.result = RegisterDeduct(split.user, split.entryFee)]
    /\ UNCHANGED <<users, tournaments, ledger, registrations, calls>>

\* The balance update of a manual transaction beside the register handler's
\* deduction of |amount| from the same balances.
ComputeAdminSplit ==
    /\ split.phase = "admin input"
    /\ split' = [split EXCEPT
                    !.phase = "admin output",
                    !.result = AdminApply(split.user, split.type, split.amount),
                    !.register = RegisterDeduct(split.user, Abs(split.amount))]
    /\ UNCHANGED <<users, tournaments, ledger, registrations, calls>>


(***************************************************************************)
(* Inputs                                                                  *)
(***************************************************************************)
\* Request bodies of the registration specification: three valid ones (two of
\* them the same identity once trimmed), one without a team, one with a
\* non-numeric identity.
RegisterBodies ==
    {[freeFireId |-> [given |-> TRUE, str |-> <<"7">>], termsAccepted |-> "true",
      teamSelection |-> "team_a"],
     [freeFireId |-> [given |-> TRUE, str |-> <<" ", "7">>], termsAccepted |-> "true",
      teamSelection |-> "team_a"],
     [freeFireId |-> [given |-> TRUE, str |-> <<"8", " ">>], termsAccepted |-> "true",
      teamSelection |-> "team_a"],
     [freeFireId |-> [given |-> TRUE, str |-> <<"8">>], termsAccepted |-> "true",
      teamSelection |-> "null"],
     [freeFireId |-> [given |-> TRUE, str |-> <<"x", "7">>], termsAccepted |-> "true",
      teamSelection |-> "team_a"]}

\* register requests of the ledger specification
LedgerRegisterBodies ==
    {[freeFireId |-> [given |-> TRUE, str |-> <<"7">>], termsAccepted |-> "true",
      teamSelection |-> "team_a"]}

\* register requests of the specification with failing ledger operations
FaultRegisterBodies ==
    {[freeFireId |-> [given |-> TRUE, str |-> <<"7">>], termsAccepted |-> "true",
      teamSelection |-> "team_a"],
     [freeFireId |-> [given |-> TRUE, str |-> <<"8">>], termsAccepted |-> "true",
      teamSelection |-> "team_b"]}

\* the tournaments of the specification with failing ledger operations
FaultTournaments == {"t1", "t2"}


\* The callers of the input specification: the users, and the bearer of a
\* valid token whose User document is gone.
TokenUsers == Users \cup {"u0"}

\* Request bodies of the input specification: two valid ones; freeFireId
\* missing, empty, blank, not numeric, all zeros; terms not accepted; no
\* team, an unknown team.
InputBodies ==
    {[freeFireId |-> [given |-> TRUE, str |-> <<"7">>], termsAccepted |-> "true",
      teamSelection |-> "team_a"],
     [freeFireId |-> [given |-> TRUE, str |-> <<" ", "8", " ">>], termsAccepted |-> "true",
      teamSelection |-> "team_b"],
     [freeFireId |-> [given |-> FALSE, str |-> <<>>], termsAccepted |-> "true",
      teamSelection |-> "team_a"],
     [freeFireId |-> [given |-> TRUE, str |-> <<>>], termsAccepted |-> "true",
      teamSelection |-> "team_a"],
     [freeFireId |-> [given |-> TRUE, str |-> <<" ">>], termsAccepted |-> "true",
      teamSelection |-> "team_a"],
     [freeFireId |-> [given |-> TRUE, str |-> <<"x", "7">>], termsAccepted |-> "true",
      teamSelection |-> "team_a"],
     [freeFireId |-> [given |-> TRUE, str |-> <<"0">>], termsAccepted |-> "true",
      teamSelection |-> "team_a"],
     [freeFireId |-> [given |-> TRUE, str |-> <<"7">>], termsAccepted |-> "false",
      teamSelection |-> "team_a"],
     [freeFireId |-> [given |-> TRUE, str |-> <<"7">>], termsAccepted |-> "true",
      teamSelection |-> "null"],
     [freeFireId |-> [given |-> TRUE, str |-> <<"7">>], termsAccepted |-> "true",
      teamSelection |-> "team_c"]}

\* The collections after a register request, numbered c, of userId for
\* tournament id was served alone and returned success.
CompletedRegistration(stores, c, userId, id, freeFireId, teamSelection) ==
    LET tournament == stores.tournaments[id]
        d == RegisterDeduct(stores.users[userId], tournament.entryFee)
    IN  [users |-> [stores.users EXCEPT ![userId] = d.user],
         tournaments |-> [stores.tournaments EXCEPT ![id] =
                             TournamentSave(@, userId, @.registeredPlayers + 1)],
         ledger |-> stores.ledger \cup
                      {[id |-> c, userId |-> userId, type |-> "entry_fee",
                        amount |-> 0 - tournament.entryFee,
                        description |-> "Entry fee for tournament",
                        reference |-> id, referenceType |-> "tournament_id",
                        status |-> "completed"]},
         registrations |-> stores.registrations \cup
                      {[id |-> c, userId |-> userId, tournamentId |-> id,
                        freeFireId |-> freeFireId, teamSelection |-> teamSelection,
                        entryFee |-> tournament.entryFee]}]

\* the collections at start-up
StartStores ==
    [users |-> InitUsers, tournaments |-> InitTournaments, ledger |-> {},
     registrations |-> {}]

\* The collections in which the requests of the input specification arrive:
\* those at start-up, and those after u2 took the only seat of t1 and u1 one
\* of the two seats of t2 (requests 11 and 12, served before).
InputStores ==
    {StartStores,
     CompletedRegistration(
         CompletedRegistration(StartStores, 11, "u2", "t1", <<"8">>, "null"),
         12, "u1", "t2", <<"7">>, "team_a")}


\* The collections in which the two requests of the pair specification
\* arrive: those of InputStores, the users holding any balances up to
\* MaxPairBalance.
PairStores ==
    {[stores EXCEPT !.users = [u \in Users |-> balances[u]]] :
        stores \in InputStores,
        balances \in [Users -> [depositAmount : 0..MaxPairBalance,
                                winningAmount : 0..MaxPairBalance]]}

\* Two register requests of different users for different tournaments.
PairRequests ==
    {requests \in [1..2 -> [userId : Users, id : Tournaments,
                            body : FaultRegisterBodies]] :
        /\ requests[1].userId # requests[2].userId
        /\ requests[1].id # requests[2].id}


\* The values of a tournament's teamSize: those of the schema's enum, and
\* none (a battle_royal tournament, for which the field is not required).
TeamSizes == {"1vs1", "2v2", "4v4", "6v6", "undefined"}

\* The tournaments of the team-selection specification: those at start-up,
\* all of one teamSize.
TeamTournaments ==
    {[t \in Tournaments |-> [InitTournaments[t] EXCEPT !.teamSize = teamSize]] :
        teamSize \in TeamSizes}

\* Request bodies of the team-selection specification: no team, the two
\* teams, an unknown team.
TeamBodies ==
    [freeFireId : {[given |-> TRUE, str |-> <<"7">>]}, termsAccepted : {"true"},
     teamSelection : {"null", "team_a", "team_b", "team_c"}]

\* the register requests of the team-selection specification
TeamRequests ==
    [1..NumTeamCalls -> [userId : Users, id : {"t1", "t2"}, body : TeamBodies]]


\* Values of termsAccepted in a JSON request body: the booleans, none, null,
\* numbers, strings, an empty array.
TermsValues ==
    {"true", "false", "undefined", "null", "0", "1", "''", "'yes'", "'false'", "[]"}

\* request bodies of the terms-acceptance specification
TermsBodies ==
    [freeFireId : {[given |-> TRUE, str |-> <<"7">>]}, termsAccepted : TermsValues,
     teamSelection : {"team_a"}]

\* the register requests of the terms-acceptance specification
TermsRequests ==
    [1..NumTermsCalls -> [userId : Users, id : {"t1", "t2"}, body : TermsBodies]]


\* the full names users give themselves
Fullnames == {"Asha", "Ravi"}


\* The Tournament documents the room endpoint may find: of each status of
\* the schema's enum, with any of the users registered, with and without
\* room details; and no document.
RoomTournaments ==
    [exists : {TRUE}, status : {"upcoming", "active", "completed"},
     registeredUsers : {<<>>, <<"u1">>, <<"u2">>, <<"u2", "u1">>},
     roomId : {"", "room1"}, roomPassword : {"", "pw1"}]
    \cup
    {[exists |-> FALSE, status |-> "deleted", registeredUsers |-> <<>>,
      roomId |-> "", roomPassword |-> ""]}


\* the tournaments an administrator deletes while requests are served
Deletable == {"t2"}

\* Manual transactions of the ledger specification: credits and debits under
\* the reference of a register request ("t1") and under another one, and
\* three that are refused (no amount, unknown type, unknown referenceType).
AdminBodies ==
    [userId : Users, type : {"deposit", "withdrawal"}, amount : {1},
     description : {"manual"}, reference : {"t1", "pay1"},
     referenceType : {"tournament_id"}]
    \cup
    [userId : {"u1"}, type : {"winning", "entry_fee"}, amount : {1},
     description : {"manual"}, reference : {"t1"},
     referenceType : {"tournament_id"}]
    \cup
    {[userId |-> "u1", type |-> "deposit", amount |-> 0, description |-> "manual",
      reference |-> "t1", referenceType |-> "tournament_id"],
     [userId |-> "u1", type |-> "bonus", amount |-> 1, description |-> "manual",
      reference |-> "t1", referenceType |-> "tournament_id"],
     [userId |-> "u1", type |-> "deposit", amount |-> 1, description |-> "manual",
      reference |-> "t1", referenceType |-> "bogus"]}

\* Winners lists of the award specification: three winners of whom the
\* second is no user; one winner; one user twice at the same position with
\* two amounts; none; one user at two positions; a negative amount.
AwardWinners ==
    {<<[userId |-> "u1", amount |-> 2, position |-> 1],
       [userId |-> "u0", amount |-> 1, position |-> 2],
       [userId |-> "u2", amount |-> 1, position |-> 3]>>,
     <<[userId |-> "u2", amount |-> 1, position |-> 1]>>,
     <<[userId |-> "u1", amount |-> 1, position |-> 1],
       [userId |-> "u1", amount |-> 2, position |-> 1]>>,
     <<>>,
     <<[userId |-> "u1", amount |-> 1, position |-> 1],
       [userId |-> "u1", amount |-> 1, position |-> 2]>>,
     <<[userId |-> "u2", amount |-> 0 - 3, position |-> 2]>>}

\* Bodies of the award requests: every winners list for the completed
\* tournament t3, one list for the upcoming t1 and for t2 (upcoming, or
\* deleted), and a body without tournamentId.
AwardBodies ==
    [tournamentId : {"t3"}, winners : [isArray : {TRUE}, list : AwardWinners]]
    \cup
    {[tournamentId |-> id,
      winners |-> [isArray |-> TRUE,
                   list |-> <<[userId |-> "u2", amount |-> 1, position |-> 1]>>]]
        : id \in {"t1", "t2", ""}}


\* Bodies of the repeated award requests: for the completed tournament t3,
\* one winner, and that winner after another one.
RepeatBodies ==
    {[tournamentId |-> "t3",
      winners |-> [isArray |-> TRUE,
                   list |-> <<[userId |-> "u2", amount |-> 1, position |-> 1]>>]],
     [tournamentId |-> "t3",
      winners |-> [isArray |-> TRUE,
                   list |-> <<[userId |-> "u1", amount |-> 2, position |-> 2],
                              [userId |-> "u2", amount |-> 1, position |-> 1]>>]]}


\* Bodies of the verify-payment requests: the two payments with their
\* signatures, a forged signature, a receipt of two parts.
PaymentBodies ==
    {[razorpay_order_id |-> "order1", razorpay_payment_id |-> "pay1",
      razorpay_signature |-> Hmac(KeySecret, "order1|pay1"),
      receipt |-> <<"rcpt", "123456", "0001">>],
     [razorpay_order_id |-> "order2", razorpay_payment_id |-> "pay2",
      razorpay_signature |-> Hmac(KeySecret, "order2|pay2"),
      receipt |-> <<"rcpt", "123457", "0001">>],
     [razorpay_order_id |-> "order1", razorpay_payment_id |-> "pay1",
      razorpay_signature |-> Hmac("guess", "order1|pay1"),
      receipt |-> <<"rcpt", "123456", "0001">>],
     [razorpay_order_id |-> "order1", razorpay_payment_id |-> "pay1",
      razorpay_signature |-> Hmac(KeySecret, "order1|pay1"),
      receipt |-> <<"rcpt", "123456">>]}


(***************************************************************************)
(* Specifications                                                          *)
(***************************************************************************)
InitStores ==
    /\ users = InitUsers
    /\ tournaments = InitTournaments
    /\ ledger = {}
    /\ registrations = {}

\* the registration system: register requests and tournament deletion
Init ==
    /\ InitStores
    /\ calls = [c \in 1..NumCalls |-> IdleCall]
    /\ split = NoSplit

Next ==
    \/ \E c \in DOMAIN calls, userId \in Users, id \in Tournaments,
          body \in RegisterBodies : RegisterFindTournament(c, userId, id, body)
    \/ \E c \in DOMAIN calls : RegisterFindUser(c)
    \/ \E c \in DOMAIN calls : RegisterSaveUser(c)
    \/ \E c \in DOMAIN calls : LogFindOne(c)
    \/ \E c \in DOMAIN calls : LogSave(c)
    \/ \E c \in DOMAIN calls : RegisterSaveRegistration(c)
    \/ \E c \in DOMAIN calls : RegisterSaveTournament(c)
    \/ \E id \in Deletable : DeleteTournament(id)

Spec == Init /\ [][Next]_vars

\* the ledger: manual transactions and register requests
InitLedger ==
    /\ InitStores
    /\ calls = [c \in 1..NumLedgerCalls |-> IdleCall]
    /\ split = NoSplit

NextLedger ==
    \/ \E c \in DOMAIN calls, body \in AdminBodies : AdminFindUser(c, body)
    \/ \E c \in DOMAIN calls : AdminSaveUser(c)
    \/ \E c \in DOMAIN calls, userId \in Users, id \in {"t1"},
          body \in LedgerRegisterBodies : RegisterFindTournament(c, userId, id, body)
    \/ \E c \in DOMAIN calls : RegisterFindUser(c)
    \/ \E c \in DOMAIN calls : RegisterSaveUser(c)
    \/ \E c \in DOMAIN calls : LogFindOne(c)
    \/ \E c \in DOMAIN calls : LogSave(c)
    \/ \E c \in DOMAIN calls : RegisterSaveRegistration(c)
    \/ \E c \in DOMAIN calls : RegisterSaveTournament(c)

SpecLedger == InitLedger /\ [][NextLedger]_vars

\* register requests while the ledger's database operations may fail
InitFaults ==
    /\ InitStores
    /\ calls = [c \in 1..NumFaultCalls |-> IdleCall]
    /\ split = NoSplit

NextFaults ==
    \/ \E c \in DOMAIN calls, userId \in Users, id \in FaultTournaments,
          body \in FaultRegisterBodies : RegisterFindTournament(c, userId, id, body)
    \/ \E c \in DOMAIN calls : RegisterFindUser(c)
    \/ \E c \in DOMAIN calls : RegisterSaveUser(c)
    \/ \E c \in DOMAIN calls : LogFindOne(c)
    \/ \E c \in DOMAIN calls : LogSave(c)
    \/ \E c \in DOMAIN calls : LogTransactionFails(c)
    \/ \E c \in DOMAIN calls : RegisterSaveRegistration(c)
    \/ \E c \in DOMAIN calls : RegisterSaveTournament(c)

SpecFaults == InitFaults /\ [][NextFaults]_vars


\* register requests with every kind of request body, arriving in the
\* collections of InputStores
InitInput ==
    /\ \E stores \in InputStores :
          /\ users = stores.users
          /\ tournaments = stores.tournaments
          /\ ledger = stores.ledger
          /\ registrations = stores.registrations
    /\ calls = [c \in 1..NumInputCalls |-> IdleCall]
    /\ split = NoSplit

NextInput ==
    \/ \E c \in DOMAIN calls, userId \in TokenUsers, id \in Tournaments,
          body \in InputBodies : RegisterFindTournament(c, userId, id, body)
    \/ \E c \in DOMAIN calls : RegisterFindUser(c)
    \/ \E c \in DOMAIN calls : RegisterSaveUser(c)
    \/ \E c \in DOMAIN calls : LogFindOne(c)
    \/ \E c \in DOMAIN calls : LogSave(c)
    \/ \E c \in DOMAIN calls : RegisterSaveRegistration(c)
    \/ \E c \in DOMAIN calls : RegisterSaveTournament(c)
    \/ \E id \in Deletable : DeleteTournament(id)

SpecInput == InitInput /\ [][NextInput]_vars


\* award requests, a tournament deletion, and ledger operations that may fail
InitAward ==
    /\ InitStores
    /\ calls = [c \in 1..NumAwardCalls |-> IdleCall]
    /\ split = NoSplit

NextAward ==
    \/ \E c \in DOMAIN calls, body \in AwardBodies : AwardFindTournament(c, body)
    \/ \E c \in DOMAIN calls : AwardFindUser(c)
    \/ \E c \in DOMAIN calls : AwardSaveUser(c)
    \/ \E c \in DOMAIN calls : LogFindOne(c)
    \/ \E c \in DOMAIN calls : LogSave(c)
    \/ \E c \in DOMAIN calls : LogTransactionFails(c)
    \/ \E id \in Deletable : DeleteTournament(id)

SpecAward == InitAward /\ [][NextAward]_vars


\* award requests that an administrator sends again
InitRepeat ==
    /\ InitStores
    /\ calls = [c \in 1..NumRepeatCalls |-> IdleCall]
    /\ split = NoSplit

NextRepeat ==
    \/ \E c \in DOMAIN calls, body \in RepeatBodies : AwardFindTournament(c, body)
    \/ \E c \in DOMAIN calls : AwardFindUser(c)
    \/ \E c \in DOMAIN calls : AwardSaveUser(c)
    \/ \E c \in DOMAIN calls : LogFindOne(c)
    \/ \E c \in DOMAIN calls : LogSave(c)

SpecRepeat == InitRepeat /\ [][NextRepeat]_vars


\* verify-payment requests
InitPayment ==
    /\ InitStores
    /\ calls = [c \in 1..NumPaymentCalls |-> IdleCall]
    /\ split = NoSplit

NextPayment ==
    \/ \E c \in DOMAIN calls, userId \in TokenUsers, body \in PaymentBodies :
          VerifyFetchPayment(c, userId, body)
    \/ \E c \in DOMAIN calls : VerifyFindUser(c)
    \/ \E c \in DOMAIN calls : VerifySaveUser(c)
    \/ \E c \in DOMAIN calls : LogFindOne(c)
    \/ \E c \in DOMAIN calls : LogSave(c)

SpecPayment == InitPayment /\ [][NextPayment]_vars


\* the deduction split over a range of balances and fees
InitSplit ==
    /\ InitStores
    /\ calls = <<>>
    /\ \E d \in -1..MaxAmount, w \in -1..MaxAmount, f \in 0..MaxAmount :
          split = [phase |-> "input",
                   user |-> [depositAmount |-> d, winningAmount |-> w],
                   entryFee |-> f,
                   result |-> RegisterDeduct(NoBalance, 0)]

NextSplit == ComputeSplit

SpecSplit == InitSplit /\ [][NextSplit]_vars

\* the balance update of a manual transaction over a range of balances,
\* types and amounts (an amount of 0 is refused as a missing field)
InitAdminSplit ==
    /\ InitStores
    /\ calls = <<>>
    /\ \E d \in -1..MaxAmount, w \in -1..MaxAmount, type \in TransactionTypes,
          amount \in (0 - MaxAmount)..MaxAmount :
          /\ amount # 0
          /\ split = [phase |-> "admin input",
                      user |-> [depositAmount |-> d, winningAmount |-> w],
                      type |-> type, amount |-> amount,
                      result |-> AdminApply(NoBalance, "deposit", 0),
                      register |-> RegisterDeduct(NoBalance, 0)]

NextAdminSplit == ComputeAdminSplit

SpecAdminSplit == InitAdminSplit /\ [][NextAdminSplit]_vars


\* register requests while the server process may stop
InitStop ==
    /\ InitStores
    /\ calls = [c \in 1..NumStopCalls |-> IdleCall]
    /\ split = NoSplit

NextStop ==
    \/ \E c \in DOMAIN calls, userId \in Users, id \in FaultTournaments,
          body \in FaultRegisterBodies : RegisterFindTournament(c, userId, id, body)
    \/ \E c \in DOMAIN calls : RegisterFindUser(c)
    \/ \E c \in DOMAIN calls : RegisterSaveUser(c)
    \/ \E c \in DOMAIN calls : LogFindOne(c)
    \/ \E c \in DOMAIN calls : LogSave(c)
    \/ \E c \in DOMAIN calls : RegisterSaveRegistration(c)
    \/ \E c \in DOMAIN calls : RegisterSaveTournament(c)
    \/ ProcessStops

SpecStop == InitStop /\ [][NextStop]_vars


\* two register requests of different users for different tournaments,
\* served concurrently; split holds the requests and the collections they
\* arrive in
InitPair ==
    /\ \E stores \in PairStores, requests \in PairRequests :
          /\ users = stores.users
          /\ tournaments = stores.tournaments
          /\ ledger = stores.ledger
          /\ registrations = stores.registrations
          /\ split = [phase |-> "pair", stores |-> stores, requests |-> requests]
    /\ calls = <<IdleCall, IdleCall>>

NextPair ==
    \/ \E c \in DOMAIN calls :
          RegisterFindTournament(c, split.requests[c].userId,
                                 split.requests[c].id, split.requests[c].body)
    \/ \E c \in DOMAIN calls : RegisterFindUser(c)
    \/ \E c \in DOMAIN calls : RegisterSaveUser(c)
    \/ \E c \in DOMAIN calls : LogFindOne(c)
    \/ \E c \in DOMAIN calls : LogSave(c)
    \/ \E c \in DOMAIN calls : RegisterSaveRegistration(c)
    \/ \E c \in DOMAIN calls : RegisterSaveTournament(c)

SpecPair == InitPair /\ [][NextPair]_vars


\* register requests with every team selection for tournaments of every
\* teamSize; split holds the requests
InitTeam ==
    /\ users = InitUsers
    /\ tournaments \in TeamTournaments
    /\ ledger = {}
    /\ registrations = {}
    /\ calls = [c \in 1..NumTeamCalls |-> IdleCall]
    /\ \E requests \in TeamRequests :
          split = [phase |-> "team", requests |-> requests]

NextTeam ==
    \/ \E c \in DOMAIN calls :
          RegisterFindTournament(c, split.requests[c].userId,
                                 split.requests[c].id, split.requests[c].body)
    \/ \E c \in DOMAIN calls : RegisterFindUser(c)
    \/ \E c \in DOMAIN calls : RegisterSaveUser(c)
    \/ \E c \in DOMAIN calls : LogFindOne(c)
    \/ \E c \in DOMAIN calls : LogSave(c)
    \/ \E c \in DOMAIN calls : RegisterSaveRegistration(c)
    \/ \E c \in DOMAIN calls : RegisterSaveTournament(c)

SpecTeam == InitTeam /\ [][NextTeam]_vars


\* register requests with every kind of termsAccepted value; split holds
\* the requests
InitTerms ==
    /\ InitStores
    /\ calls = [c \in 1..NumTermsCalls |-> IdleCall]
    /\ \E requests \in TermsRequests :
          split = [phase |-> "terms", requests |-> requests]

NextTerms ==
    \/ \E c \in DOMAIN calls :
          RegisterFindTournament(c, split.requests[c].userId,
                                 split.requests[c].id, split.requests[c].body)
    \/ \E c \in DOMAIN calls : RegisterFindUser(c)
    \/ \E c \in DOMAIN calls : RegisterSaveUser(c)
    \/ \E c \in DOMAIN calls : LogFindOne(c)
    \/ \E c \in DOMAIN calls : LogSave(c)
    \/ \E c \in DOMAIN calls : RegisterSaveRegistration(c)
    \/ \E c \in DOMAIN calls : RegisterSaveTournament(c)

SpecTerms == InitTerms /\ [][NextTerms]_vars


\* register requests, profile updates and tournament deletions
InitSnapshot ==
    /\ InitStores
    /\ calls = [c \in 1..NumSnapshotCalls |-> IdleCall]
    /\ split = [phase |-> "snapshot",
                profiles |-> [u \in Users |-> "Asha"],
                loaded |-> [c \in 1..NumSnapshotCalls |-> "none"],
                metadata |-> {}]

NextSnapshot ==
    \/ \E c \in DOMAIN calls, userId \in Users, id \in FaultTournaments,
          body \in FaultRegisterBodies : RegisterFindTournament(c, userId, id, body)
    \/ \E c \in DOMAIN calls : SnapshotFindUser(c)
    \/ \E c \in DOMAIN calls : RegisterSaveUser(c)
    \/ \E c \in DOMAIN calls : LogFindOne(c)
    \/ \E c \in DOMAIN calls : LogSave(c)
    \/ \E c \in DOMAIN calls : SnapshotSaveRegistration(c)
    \/ \E c \in DOMAIN calls : RegisterSaveTournament(c)
    \/ \E userId \in Users, fullname \in Fullnames : PutProfile(userId, fullname)
    \/ \E id \in FaultTournaments : DeleteTournament(id)

SpecSnapshot == InitSnapshot /\ [][NextSnapshot]_vars


\* the room endpoint over the tournament documents and callers
InitRoom ==
    /\ InitStores
    /\ calls = <<>>
    /\ \E tournament \in RoomTournaments, userId \in TokenUsers :
          split = [phase |-> "room input", tournament |-> tournament,
                   userId |-> userId,
                   response |-> [status |-> 0, body |-> [message |-> "none"]]]

NextRoom == ComputeRoom

SpecRoom == InitRoom /\ [][NextRoom]_vars


(***************************************************************************)
(* Properties                                                              *)
(***************************************************************************)
Min(a, b) == IF a <= b THEN a ELSE b

Total(user) == user.depositAmount + user.winningAmount

AllDone == \A c \in DOMAIN calls : calls[c].pc = "done"

Quiescent == \A c \in DOMAIN calls : calls[c].pc \in {"idle", "done"}

RegisterCalls == {c \in DOMAIN calls : calls[c].kind = "register"}

Accepted(c) == calls[c].kind = "register" /\ calls[c].pc = "done" /\ calls[c].status = 200

RegistrationsOf(t) == {r \in registrations : r.tournamentId = t}

RECURSIVE SumFees(_)
SumFees(S) ==
    IF S = {} THEN 0
    ELSE LET c == CHOOSE x \in S : TRUE
         IN  InitTournaments[calls[c].tournamentId].entryFee + SumFees(S \ {c})

\* C1: for every deposit d, winning w and fee f with d + w >= f >= 0 the
\* register handler's split is fromDeposit = min(d, f) and fromWinning =
\* f - fromDeposit, the two add up to f, and the balances it goes on to
\* save are (d - fromDeposit, w - fromWinning).
SplitDepositFirst ==
    LET d == split.user.depositAmount
        w == split.user.winningAmount
        f == split.entryFee
        r == split.result
    IN  (split.phase = "output" /\ d + w >= f /\ f >= 0) =>
            /\ r.outcome = "ok"
            /\ r.deductedFromDeposit = Min(d, f)
            /\ r.deductedFromWinning = f - r.deductedFromDeposit
            /\ r.deductedFromDeposit + r.deductedFromWinning = f
            /\ r.user = [depositAmount |-> d - r.deductedFromDeposit,
                         winningAmount |-> w - r.deductedFromWinning]

\* a split that takes the whole deposit and part of the winning balance
SplitUsesBothBalances ==
    /\ split.phase = "output"
    /\ split.user.depositAmount > 0
    /\ split.user.depositAmount < split.entryFee
    /\ split.result.outcome = "ok"
    /\ split.result.deductedFromWinning > 0
    /\ split.result.user.winningAmount > 0

\* C2: when maxSlots + 1 distinct users with sufficient funds have registered
\* for an upcoming tournament with maxSlots free seats, under any
\* interleaving of their calls, exactly maxSlots calls were admitted, the
\* other was answered 'Tournament is full', and registeredPlayers = maxSlots.
CapacityAdmitsExactlyMaxSlots ==
    \A t \in Tournaments :
        ( /\ AllDone
          /\ tournaments[t].exists
          /\ InitTournaments[t].status = "upcoming"
          /\ Cardinality(DOMAIN calls) = InitTournaments[t].maxSlots + 1
          /\ \A c \in DOMAIN calls :
                /\ calls[c].kind = "register"
                /\ calls[c].tournamentId = t
                /\ Total(InitUsers[calls[c].userId]) >= InitTournaments[t].entryFee
                /\ calls[c].message \in {"Successfully registered for tournament",
                                         "Tournament is full",
                                         "Already registered for this tournament",
                                         "You are already registered for this tournament"}
          /\ \A b, c \in DOMAIN calls :
                b # c => /\ calls[b].userId # calls[c].userId
                         /\ \/ calls[b].freeFireId # calls[c].freeFireId
                            \/ calls[b].freeFireId = <<>> )
        => /\ Cardinality({c \in DOMAIN calls : Accepted(c)}) = InitTournaments[t].maxSlots
           /\ \A c \in DOMAIN calls :
                 ~Accepted(c) => calls[c].message = "Tournament is full"
           /\ tournaments[t].registeredPlayers = InitTournaments[t].maxSlots

\* C3: when no call is in flight, every register call that saved a balance
\* reduced by the entry fee has a Registration record of its user for its
\* tournament (a call that failed after the save restored the balance).
DeductionHasRegistration ==
    Quiescent =>
        \A c \in RegisterCalls :
            (calls[c].pc = "done"
                /\ calls[c].deductedFromDeposit + calls[c].deductedFromWinning > 0)
            => \E r \in registrations :
                   /\ r.userId = calls[c].userId
                   /\ r.tournamentId = calls[c].tournamentId

\* an earlier logTransaction call b inserted the entry under c's key
LoggedBefore(c, b) ==
    /\ b # c
    /\ calls[b].logResult = "inserted"
    /\ TxKey(calls[b].tx) = TxKey(calls[c].tx)

\* C4: a logTransaction call made after another one with the same (userId,
\* reference, referenceType) has inserted its entry adds nothing to the
\* ledger, which holds exactly one entry under the key, and returns the entry
\* of the first call, with the first call's type, amount and description.
SecondLogReturnsFirst ==
    [][\A c \in DOMAIN calls : \A b \in DOMAIN calls :
          (calls[c].pc = "logFindOne" /\ calls'[c].pc # "logFindOne"
              /\ LoggedBefore(c, b))
          => /\ ledger' = ledger
             /\ Cardinality(FindTransactions(ledger', calls[c].tx)) = 1
             /\ calls'[c].logResult = "existing"
             /\ calls'[c].logReturn = calls[b].logReturn
             /\ calls'[c].logReturn.type = calls[b].tx.type
             /\ calls'[c].logReturn.amount = calls[b].tx.amount
             /\ calls'[c].logReturn.description = calls[b].tx.description]_vars

\* a second call that passed another type and amount got the first entry back
SecondLogWithOtherArguments ==
    \E c \in DOMAIN calls : \E b \in DOMAIN calls :
        /\ LoggedBefore(c, b)
        /\ calls[c].logResult = "existing"
        /\ calls[c].logReturn = calls[b].logReturn
        /\ calls[c].tx.type # calls[b].tx.type
        /\ calls[c].tx.amount # calls[b].tx.amount
        /\ calls[c].tx.description # calls[b].tx.description

\* the calls whose insert under key k was attempted
SaveAttempts(k) ==
    {c \in DOMAIN calls :
        calls[c].logResult \in {"inserted", "threw"} /\ TxKey(calls[c].tx) = k
            /\ calls[c].logError # "ValidationError"}

\* C5: the ledger never holds two entries with the same (userId, reference,
\* referenceType); of the calls with one key that all passed the lookup,
\* exactly one insert succeeds and every other fails with a duplicate-key
\* error.
LedgerKeyUnique ==
    /\ \A e1, e2 \in ledger : TxKey(e1) = TxKey(e2) => e1 = e2
    /\ \A c \in DOMAIN calls :
          LET attempts == SaveAttempts(TxKey(calls[c].tx))
          IN  attempts # {} =>
                /\ Cardinality({a \in attempts : calls[a].logResult = "inserted"}) = 1
                /\ \A a \in attempts :
                      calls[a].logResult = "threw" => calls[a].logError = "E11000"

\* two calls passed the lookup with one key: one inserted, one was refused
LedgerRaceLost ==
    \E c \in DOMAIN calls : \E b \in DOMAIN calls :
        /\ LoggedBefore(c, b)
        /\ calls[c].logResult = "threw"
        /\ calls[c].logError = "E11000"
        /\ Cardinality(FindTransactions(ledger, calls[c].tx)) = 1

\* every call is a finished register call of user u
AllRegisterBy(u) ==
    /\ AllDone
    /\ \A c \in DOMAIN calls : calls[c].kind = "register" /\ calls[c].userId = u

\* C6: once two register calls of one user for two different tournaments
\* have finished, under any interleaving, the user's total balance is the
\* initial total less the entry fees of the accepted calls, and the accepted
\* fees were covered by the initial total.
BalanceLessAcceptedFees ==
    \A u \in Users :
        ( /\ AllRegisterBy(u)
          /\ \A t \in Tournaments : tournaments[t].exists
          /\ \A b, c \in DOMAIN calls :
                b # c => calls[b].tournamentId # calls[c].tournamentId )
        => LET accepted == {c \in DOMAIN calls : Accepted(c)}
           IN  /\ Total(users[u]) = Total(InitUsers[u]) - SumFees(accepted)
               /\ SumFees(accepted) <= Total(InitUsers[u])

\* C7: once two register calls of one user for the same tournament have
\* finished, under any interleaving, at most one was accepted and the user's
\* total balance is lower by the entry fee once for each accepted call.
OneDeductionPerRegistration ==
    \A u \in Users : \A t \in Tournaments :
        ( /\ AllRegisterBy(u)
          /\ tournaments[t].exists
          /\ \A c \in DOMAIN calls : calls[c].tournamentId = t )
        => LET accepted == {c \in DOMAIN calls : Accepted(c)}
           IN  /\ Cardinality(accepted) <= 1
               /\ Total(InitUsers[u]) - Total(users[u])
                     = InitTournaments[t].entryFee * Cardinality(accepted)

\* a register call of user u for tournament t has returned success
Registered(u, t) ==
    \E b \in DOMAIN calls :
        Accepted(b) /\ calls[b].userId = u /\ calls[b].tournamentId = t

\* request c arrives in this step
Arrives(c) == calls[c].pc = "idle" /\ calls'[c].pc # "idle"

StoresUnchanged ==
    /\ users' = users
    /\ ledger' = ledger
    /\ registrations' = registrations
    /\ tournaments' = tournaments

\* C8 as claimed: a register call that arrives after a call of the same user
\* for the same tournament returned success is answered 'Already registered
\* for this tournament' and changes no balance, ledger entry, Registration
\* record or occupancy.
LaterCallAlreadyRegistered ==
    [][\A c \in DOMAIN calls :
          (Arrives(c) /\ calls'[c].kind = "register"
              /\ Registered(calls'[c].userId, calls'[c].tournamentId))
          => /\ calls'[c].pc = "done"
             /\ calls'[c].message = "Already registered for this tournament"
             /\ StoresUnchanged]_vars

\* C8 (amended): such a call is answered at once and changes no balance,
\* ledger entry, Registration record or occupancy; the answer is 'Already
\* registered for this tournament' unless the tournament has registeredPlayers
\* >= maxSlots, when it is 'Tournament is full', or has been deleted, when it
\* is 'Tournament not found'.
LaterCallRejected ==
    [][\A c \in DOMAIN calls :
          (Arrives(c) /\ calls'[c].kind = "register"
              /\ Registered(calls'[c].userId, calls'[c].tournamentId))
          => LET t == tournaments[calls'[c].tournamentId]
             IN  /\ calls'[c].pc = "done"
                 /\ calls'[c].status \in {400, 404}
                 /\ calls'[c].message =
                       IF ~t.exists THEN "Tournament not found"
                       ELSE IF t.registeredPlayers >= t.maxSlots
                            THEN "Tournament is full"
                            ELSE "Already registered for this tournament"
                 /\ StoresUnchanged]_vars

\* a second call of a registered user was answered 'Already registered'
SecondCallAlreadyRegistered ==
    \E c \in DOMAIN calls :
        /\ calls[c].pc = "done"
        /\ calls[c].message = "Already registered for this tournament"
        /\ Registered(calls[c].userId, calls[c].tournamentId)

\* C9: every tournament's registeredPlayers is the number of user ids in its
\* registeredUsers.
PlayersCountUsers ==
    \A t \in Tournaments :
        tournaments[t].registeredPlayers = Len(tournaments[t].registeredUsers)

\* C10: every tournament has 0 <= registeredPlayers <= maxSlots and at most
\* maxSlots Registration records.
OccupancyWithinSlots ==
    \A t \in Tournaments :
        tournaments[t].exists =>
            /\ 0 <= tournaments[t].registeredPlayers
            /\ tournaments[t].registeredPlayers <= tournaments[t].maxSlots
            /\ Cardinality(RegistrationsOf(t)) <= tournaments[t].maxSlots


\* a step of request c
StepOf(c) == calls'[c] # calls[c]

\* C11: a register call whose user has depositAmount + winningAmount <
\* entryFee when the handler loads the user is answered 400 'Insufficient
\* balance', and neither that step nor the call's step before it changes a
\* balance, the ledger, the Registration records or a tournament's occupancy.
InsufficientBalanceRejected ==
    [][\A c \in DOMAIN calls :
          /\ (Arrives(c) /\ calls'[c].kind = "register") => StoresUnchanged
          /\ ( /\ calls[c].kind = "register"
               /\ calls[c].pc = "findUser"
               /\ StepOf(c)
               /\ calls[c].userId \in DOMAIN users
               /\ Total(users[calls[c].userId]) < calls[c].entryFee )
             => /\ calls'[c].pc = "done"
                /\ calls'[c].status = 400
                /\ calls'[c].message = "Insufficient balance"
                /\ StoresUnchanged]_vars

\* a call of a user who paid one entry fee and cannot cover the next was
\* answered 'Insufficient balance'
InsufficientAfterOneFee ==
    \E c \in DOMAIN calls :
        /\ calls[c].pc = "done"
        /\ calls[c].message = "Insufficient balance"
        /\ Total(users[calls[c].userId]) > 0
        /\ Total(users[calls[c].userId]) < InitTournaments[calls[c].tournamentId].entryFee
        /\ \A r \in registrations : r.id # c
        /\ \A e \in ledger : e.id # c


\* request c returns success in this step
RegisterSucceeds(c) ==
    /\ calls[c].kind = "register"
    /\ calls[c].pc = "saveTournament"
    /\ calls'[c].pc = "done"
    /\ calls'[c].status = 200

\* C12: when a register call for an existing tournament returns success, the
\* user's stored total is the total the call loaded less entryFee and is the
\* newBalance it reports, the ledger holds exactly one entry under (userId,
\* tournament id, tournament_id), appended by the call with type entry_fee
\* and amount -entryFee, the call created exactly one Registration record,
\* carrying that entryFee, the user is in registeredUsers and the step has
\* increased registeredPlayers by one.
SuccessfulRegisterEffects ==
    [][\A c \in DOMAIN calls :
          (RegisterSucceeds(c) /\ tournaments[calls[c].tournamentId].exists)
          => LET u == calls[c].userId
                 t == calls[c].tournamentId
                 fee == calls[c].entryFee
                 entries == {e \in ledger' : TxKey(e) = <<u, t, "tournament_id">>}
                 records == {r \in registrations' : r.id = c}
             IN  /\ Total(users'[u]) = Total(calls[c].userRead) - fee
                 /\ calls'[c].newBalance = Total(users'[u])
                 /\ Cardinality(entries) = 1
                 /\ \A e \in entries :
                       e.id = c /\ e.type = "entry_fee" /\ e.amount = 0 - fee
                 /\ Cardinality(records) = 1
                 /\ \A r \in records :
                       r.userId = u /\ r.tournamentId = t /\ r.entryFee = fee
                 /\ Includes(tournaments'[t].registeredUsers, u)
                 /\ tournaments'[t].registeredPlayers
                       = tournaments[t].registeredPlayers + 1]_vars


\* logTransaction throws to request c in this step
LogThrows(c) == calls[c].logResult # "threw" /\ calls'[c].logResult = "threw"

OneRegistrationPerUserAndTournament ==
    \A r1, r2 \in registrations :
        (r1.userId = r2.userId /\ r1.tournamentId = r2.tournamentId) => r1 = r2

\* two calls of one user for one tournament, with different identities, both
\* reached registration.save(): one record was inserted and the other call
\* was answered with the duplicate-key message
SecondRecordOfUserRefused ==
    \E b, c \in DOMAIN calls :
        /\ b # c
        /\ calls[b].userId = calls[c].userId
        /\ calls[b].tournamentId = calls[c].tournamentId
        /\ calls[b].freeFireId # calls[c].freeFireId
        /\ \E r \in registrations : r.id = b
        /\ calls[c].pc = "done"
        /\ calls[c].message = "You are already registered for this tournament"

\* C15: in every reachable state no two Registration records of one
\* tournament carry the same trimmed freeFireId.
OneRegistrationPerFreeFireId ==
    \A r1, r2 \in registrations :
        ( /\ r1.tournamentId = r2.tournamentId
          /\ Trim(r1.freeFireId) = Trim(r2.freeFireId) ) => r1 = r2

\* two different users sent the same identity for one tournament and both
\* reached registration.save(): one record was inserted and the other call
\* was answered with the duplicate-key message
SecondRecordOfFreeFireIdRefused ==
    \E b, c \in DOMAIN calls :
        /\ calls[b].userId # calls[c].userId
        /\ calls[b].tournamentId = calls[c].tournamentId
        /\ calls[b].freeFireId = calls[c].freeFireId
        /\ \E r \in registrations : r.id = b /\ r.freeFireId = calls[c].freeFireId
        /\ calls[c].pc = "done"
        /\ calls[c].message = "You are already registered for this tournament"


\* C16: whatever its body holds, a register call for an existing tournament
\* is answered 'Tournament registration is closed' when the status it reads
\* is not upcoming, else 'Tournament is full' when registeredPlayers >=
\* maxSlots, else 'Already registered for this tournament' when the caller is
\* in registeredUsers; a call that gets past these checks read an upcoming
\* tournament with a free slot that did not list the caller.
ClosedFullRegisteredInOrder ==
    [][\A c \in DOMAIN calls :
          (Arrives(c) /\ calls'[c].kind = "register"
              /\ tournaments[calls'[c].tournamentId].exists)
          => LET t == tournaments[calls'[c].tournamentId]
                 closed == t.status # "upcoming"
                 full == t.registeredPlayers >= t.maxSlots
                 listed == calls'[c].userId \in Range(t.registeredUsers)
                 rejected == calls'[c].pc = "done" /\ calls'[c].status = 400
             IN  /\ closed => /\ rejected
                              /\ calls'[c].message = "Tournament registration is closed"
                 /\ (~closed /\ full) => /\ rejected
                                         /\ calls'[c].message = "Tournament is full"
                 /\ (~closed /\ ~full /\ listed)
                       => /\ rejected
                          /\ calls'[c].message = "Already registered for this tournament"
                 /\ (~closed /\ ~full /\ ~listed)
                       => calls'[c].message \notin
                             {"Tournament registration is closed", "Tournament is full",
                              "Already registered for this tournament"}
                 /\ calls'[c].pc # "done" => (~closed /\ ~full /\ ~listed)]_vars

\* a registered user's call for a full tournament was answered 'Tournament
\* is full'
FullAnsweredBeforeRegistered ==
    \E c \in DOMAIN calls :
        /\ calls[c].pc = "done"
        /\ calls[c].message = "Tournament is full"
        /\ calls[c].userId \in Range(tournaments[calls[c].tournamentId].registeredUsers)

\* the answers of the register handler that refuse a request before its
\* first write
RejectMessages ==
    {"Tournament not found", "Tournament registration is closed",
     "Tournament is full", "Already registered for this tournament",
     "Free Fire ID is required", "You must accept the terms and conditions",
     "Free Fire ID must contain only numbers",
     "Valid team selection is required for this tournament type",
     "User not found", "Insufficient balance", "Balance calculation error"}

\* C17: a register call answered with one of RejectMessages is answered in
\* one of its first two steps (the tournament lookup with its checks, the
\* user lookup with the balance check), and no such step changes a balance,
\* the ledger, the Registration records or a tournament.
RejectedBeforeAnyWrite ==
    [][\A c \in DOMAIN calls :
          (StepOf(c) /\ calls'[c].kind = "register")
          => /\ (calls'[c].pc = "done" /\ calls'[c].message \in RejectMessages)
                => calls[c].pc \in {"idle", "findUser"}
             /\ calls[c].pc \in {"idle", "findUser"} => StoresUnchanged]_vars

\* a call that passed every check of its input was refused for its missing
\* user, and the collections are those the request arrived in
RefusedForMissingUser ==
    \E c \in DOMAIN calls :
        /\ calls[c].pc = "done"
        /\ calls[c].message = "User not found"
        /\ calls[c].userId \notin Users
        /\ \E stores \in InputStores :
              /\ users = stores.users
              /\ tournaments = stores.tournaments
              /\ ledger = stores.ledger
              /\ registrations = stores.registrations


\* the award calls
AwardCalls == {c \in DOMAIN calls : calls[c].kind = "award"}

\* C18: an award call for a tournament that does not exist or whose status
\* is not completed is answered 404 or 400 in the step it arrives, with no
\* per-winner result, and the step changes no balance and no ledger entry;
\* a call that was answered takes no further step.
AwardRefusedUnlessCompleted ==
    [][\A c \in DOMAIN calls :
          /\ ( /\ Arrives(c)
               /\ calls'[c].kind = "award"
               /\ calls'[c].tournamentId \in Tournaments
               /\ \/ ~tournaments[calls'[c].tournamentId].exists
                  \/ tournaments[calls'[c].tournamentId].status # "completed" )
             => /\ calls'[c].pc = "done"
                /\ calls'[c].status \in {400, 404}
                /\ calls'[c].message =
                      IF tournaments[calls'[c].tournamentId].exists
                      THEN "Tournament is not completed"
                      ELSE "Tournament not found"
                /\ calls'[c].results = <<>>
                /\ StoresUnchanged
          /\ calls[c].pc = "done" => calls'[c] = calls[c]]_vars

\* an award call with a winner was refused for a tournament that is not
\* completed or was deleted, and no balance or ledger entry has changed
AwardRefused ==
    \E c \in AwardCalls :
        /\ calls[c].pc = "done"
        /\ calls[c].message \in {"Tournament is not completed", "Tournament not found"}
        /\ users = InitUsers
        /\ ledger = {}


\* the sum of the amounts of the winners of a list whose userId is u
RECURSIVE SumAmounts(_, _)
SumAmounts(winners, u) ==
    IF winners = <<>> THEN 0
    ELSE (IF Head(winners).userId = u THEN Head(winners).amount ELSE 0)
            + SumAmounts(Tail(winners), u)

AwardKey(c, winner) ==
    <<winner.userId,
      AwardReference(calls[c].tournamentId, winner.userId, winner.position),
      "tournament_id">>

\* C20: when an award call saves a winner's user, the stored winningAmount
\* grows by exactly the winner's amount and the stored depositAmount stays;
\* when it reports the winner as success, the ledger holds exactly one entry
\* under the winner's key, of type winning and with the winner's amount; and
\* two winners of a call that differ in userId or position have different
\* keys.
AwardSuccessCreditedAndLogged ==
    [][\A c \in DOMAIN calls :
          (calls[c].kind = "award" /\ StepOf(c))
          => LET winners == calls[c].winners
                 n == Len(calls[c].results)
             IN  /\ calls[c].pc = "awardSaveUser"
                    => LET u == winners[n + 1].userId
                       IN  /\ users'[u].winningAmount
                                 = users[u].winningAmount + winners[n + 1].amount
                           /\ users'[u].depositAmount = users[u].depositAmount
                 /\ (Len(calls'[c].results) = n + 1 /\ calls'[c].results[n + 1].success)
                    => LET entries == {e \in ledger' :
                                          TxKey(e) = AwardKey(c, winners[n + 1])}
                       IN  /\ Cardinality(entries) = 1
                           /\ \A e \in entries :
                                 /\ e.type = "winning"
                                 /\ e.amount = winners[n + 1].amount
                 /\ \A i, j \in 1..Len(winners) :
                       (\/ winners[i].userId # winners[j].userId
                        \/ winners[i].position # winners[j].position)
                       => AwardKey(c, winners[i]) # AwardKey(c, winners[j])]_vars


\* C21: when every award call has returned and one of them, naming a single
\* winner, found the ledger entry that another call had written for that
\* winner, the winner's winningAmount is the initial one plus the amount,
\* once.
RepeatedAwardCreditsOnce ==
    \A b, c \in AwardCalls :
        ( /\ AllDone
          /\ b # c
          /\ Len(calls[c].winners) = 1
          /\ calls[c].winners[1] \in Range(calls[b].winners)
          /\ calls[c].tournamentId = calls[b].tournamentId
          /\ calls[c].logResult = "existing"
          /\ calls[c].logReturn.id = b
          /\ calls[c].results[1].success )
        => LET winner == calls[c].winners[1]
           IN  users[winner.userId].winningAmount
                  = InitUsers[winner.userId].winningAmount + winner.amount


\* the verify-payment calls
VerifyCalls == {c \in DOMAIN calls : calls[c].kind = "verify"}

\* the sum of the rupee amounts of a set of payment ids
RECURSIVE SumPayments(_)
SumPayments(S) ==
    IF S = {} THEN 0
    ELSE LET p == CHOOSE x \in S : TRUE
         IN  (Payments[p].amount \div 100) + SumPayments(S \ {p})

\* C22: every user's depositAmount is at most the initial one plus the
\* amounts of the different payments the user submitted with a valid
\* signature, each counted once, and the ledger has at most one deposit
\* entry for a user and a payment id.
PaymentCreditedOnce ==
    \A u \in Users :
        LET submitted == {calls[c].paymentId :
                             c \in {v \in VerifyCalls : /\ calls[v].userId = u
                                                        /\ calls[v].status # 400}}
        IN  /\ users[u].depositAmount
                  <= InitUsers[u].depositAmount + SumPayments(submitted)
            /\ \A p \in DOMAIN Payments :
                  Cardinality({e \in ledger : TxKey(e) = <<u, p, "payment_id">>}) <= 1


\* C23: a call whose ledger insert failed on the unique index is answered
\* as if the entry had been found: a manual transaction with 201
\* 'Transaction logged successfully', a verified payment with 200, an award
\* with a success result for the winner, and a register call is not
\* answered 'Server error'.
DuplicateKeyReportedAsSuccess ==
    \A c \in DOMAIN calls :
        (calls[c].pc = "done" /\ calls[c].logError = "E11000")
        => CASE calls[c].kind = "admin" ->
                    /\ calls[c].status = 201
                    /\ calls[c].message = "Transaction logged successfully"
             [] calls[c].kind = "verify" -> calls[c].status = 200
             [] calls[c].kind = "award" ->
                    calls[c].results[Len(calls[c].results)].success
             [] OTHER -> calls[c].status # 500


\* the sum of the amounts of the results of user u reported with success
RECURSIVE SumSuccesses(_, _)
SumSuccesses(results, u) ==
    IF results = <<>> THEN 0
    ELSE (IF Head(results).userId = u /\ Head(results).success
          THEN Head(results).amount ELSE 0)
            + SumSuccesses(Tail(results), u)

\* C24: when an award call, running alone, has returned, every user's
\* winningAmount is the initial one plus the amounts of the winners reported
\* with success: a winner reported with success: false has left the
\* winningAmount as it was.
FailedWinnerNotCredited ==
    \A c \in AwardCalls :
        ( /\ calls[c].pc = "done"
          /\ \A b \in DOMAIN calls : b # c => calls[b].pc = "idle" )
        => \A u \in Users :
              users[u].winningAmount
                 = InitUsers[u].winningAmount + SumSuccesses(calls[c].results, u)


\* C25: every user's depositAmount and winningAmount are >= 0.
BalancesNotNegative ==
    \A u \in Users :
        users[u].depositAmount >= 0 /\ users[u].winningAmount >= 0


\* C26: for balances d, w >= 0, a manual entry_fee or withdrawal of amount a
\* with d + w >= |a| leaves the balances the register handler's split of |a|
\* leaves, and is refused without a change when d + w < |a|; a manual
\* deposit or winning lowers neither balance.
AdminSplitAsRegister ==
    LET d == split.user.depositAmount
        w == split.user.winningAmount
        a == split.amount
    IN  (split.phase = "admin output" /\ d >= 0 /\ w >= 0) =>
            IF split.type \in {"entry_fee", "withdrawal"}
            THEN IF d + w >= Abs(a)
                 THEN /\ split.result.outcome = "ok"
                      /\ split.register.outcome = "ok"
                      /\ split.result.user = split.register.user
                 ELSE /\ split.result.outcome = "insufficient"
                      /\ split.result.user = split.user
            ELSE /\ split.result.user.depositAmount >= d
                 /\ split.result.user.winningAmount >= w


\* Register call c is at a save that detects a conflict: the Registration
\* save meets a unique-index violation.
SaveConflict(c) ==
    /\ calls[c].pc = "saveRegistration"
    /\ RegistrationIndexViolated(registrations, RegistrationOf(c))

\* C27: a register call that detects a conflict at a save is not answered by
\* that step: it is first re-run from loading the tournament and the user,
\* and is answered with a failure only after a fixed number of re-runs.
RegisterConflictRerun ==
    [][\A c \in RegisterCalls :
          (SaveConflict(c) /\ StepOf(c)) => calls'[c].pc # "done"]_vars


\* C28: no state has an abandoned register call whose deduction is saved in
\* the user's balance while no Registration record of the call exists and
\* the tournament's registeredUsers does not hold the user.
InterruptedLeavesNoEffect ==
    \A c \in RegisterCalls :
        ~ ( /\ calls[c].pc = "abandoned"
            /\ calls[c].tx # NoArgs
            /\ calls[c].deductedFromDeposit + calls[c].deductedFromWinning > 0
            /\ Total(users[calls[c].userId]) < Total(InitUsers[calls[c].userId])
            /\ \A r \in registrations : r.id # c
            /\ ~Includes(tournaments[calls[c].tournamentId].registeredUsers,
                         calls[c].userId) )


\* the four collections as one record
Stores ==
    [users |-> users, tournaments |-> tournaments, ledger |-> ledger,
     registrations |-> registrations]

\* what register call c answered
OutcomeOf(c) ==
    RegisterOutcome(calls[c].status, calls[c].message,
                    calls[c].deductedFromDeposit, calls[c].deductedFromWinning,
                    calls[c].newBalance)

\* request c of the pair served alone on the collections in stores
PairAlone(stores, c) ==
    RegisterAlone(stores, c, split.requests[c].userId, split.requests[c].id,
                  split.requests[c].body)

\* C29: when two register calls of different users for different
\* tournaments have both been answered, whatever the interleaving of their
\* steps, the collections and the two answers are those of serving request
\* 1 and then request 2 alone, and those of serving request 2 and then
\* request 1 alone.
PairAsSequential ==
    (split.phase = "pair" /\ AllDone) =>
        LET first12  == PairAlone(split.stores, 1)
            second12 == PairAlone(first12.stores, 2)
            first21  == PairAlone(split.stores, 2)
            second21 == PairAlone(first21.stores, 1)
        IN  /\ Stores = second12.stores
            /\ Stores = second21.stores
            /\ OutcomeOf(1) = first12.outcome
            /\ OutcomeOf(1) = second21.outcome
            /\ OutcomeOf(2) = second12.outcome
            /\ OutcomeOf(2) = first21.outcome

\* Both calls of the pair were answered with success, the first having paid
\* from both of its user's balances.
PairBothAccepted ==
    /\ split.phase = "pair"
    /\ AllDone
    /\ Accepted(1)
    /\ Accepted(2)
    /\ calls[1].deductedFromDeposit > 0
    /\ calls[1].deductedFromWinning > 0
    /\ Cardinality(registrations) = 2
    /\ Cardinality(ledger) = 2


\* C30: a register call answered with success was given a freeFireId that,
\* trimmed, is a string of digits with a digit other than 0: a positive
\* integer.
AcceptedFreeFireIdPositive ==
    \A c \in RegisterCalls :
        Accepted(c) =>
            /\ AllDigits(calls[c].freeFireId)
            /\ \E i \in 1..Len(calls[c].freeFireId) : calls[c].freeFireId[i] # "0"


\* the Registration records register call c saved
RecordsOf(c) == {r \in registrations : r.id = c}

\* C31: a register call for a tournament whose teamSize is 2v2, 4v4 or 6v6
\* that names neither team_a nor team_b is rejected and saves no record, and
\* an accepted one stores the team it named; a call for any other
\* tournament is never rejected for its team selection, and an accepted one
\* stores teamSelection null whatever it named.
TeamSelectionRequiredIffTeams ==
    \A c \in RegisterCalls :
        (split.phase = "team" /\ calls[c].pc = "done") =>
            LET request == split.requests[c]
                teamSize == tournaments[request.id].teamSize
                named == request.body.teamSelection
            IN  IF teamSize \in {"2v2", "4v4", "6v6"}
                THEN /\ named \notin {"team_a", "team_b"}
                          => ~Accepted(c) /\ RecordsOf(c) = {}
                     /\ Accepted(c)
                          => \A r \in RecordsOf(c) : r.teamSelection = named
                ELSE /\ calls[c].message #
                          "Valid team selection is required for this tournament type"
                     /\ \A r \in RecordsOf(c) : r.teamSelection = "null"
                     /\ Accepted(c) => RecordsOf(c) # {}

\* A call naming team_a for a tournament without a teamSize was accepted and
\* its record holds no team.
TeamNamedForSoloStoredNull ==
    \E c \in RegisterCalls :
        /\ split.phase = "team"
        /\ Accepted(c)
        /\ tournaments[split.requests[c].id].teamSize = "undefined"
        /\ split.requests[c].body.teamSelection = "team_a"
        /\ \E r \in RecordsOf(c) : r.teamSelection = "null"


\* C32: a register call that is accepted, or that has saved a Registration
\* record (which holds termsAccepted true), was sent with termsAccepted
\* being the boolean true.
AcceptedOnlyWithTermsTrue ==
    \A c \in RegisterCalls :
        (split.phase = "terms" /\ (Accepted(c) \/ RecordsOf(c) # {}))
            => split.requests[c].body.termsAccepted = "true"


\* C33: no step changes or removes a Registration record or its user
\* snapshot: every record, with its entryFee, and every snapshot that exists
\* before a step exists unchanged after it, whatever profile update or
\* tournament deletion the step is.
RegistrationRecordsKept ==
    [][split.phase = "snapshot" =>
          /\ registrations \subseteq registrations'
          /\ split.metadata \subseteq split'.metadata]_vars

\* A Registration record whose user has since changed the fullname and whose
\* tournament has since been deleted still holds the old fullname and the
\* fee of the tournament.
SnapshotOutlivesEdits ==
    /\ split.phase = "snapshot"
    /\ \E r \in registrations, m \in split.metadata :
          /\ m.id = r.id
          /\ m.userSnapshot.fullname = "Asha"
          /\ split.profiles[r.userId] = "Ravi"
          /\ ~tournaments[r.tournamentId].exists
          /\ r.entryFee > 0


RECURSIVE SumEntries(_)
SumEntries(S) ==
    IF S = {} THEN 0
    ELSE LET e == CHOOSE x \in S : TRUE
         IN  e.amount + SumEntries(S \ {e})

\* C34: when no request is in flight and no call's logTransaction has
\* thrown, every user's depositAmount + winningAmount is the initial total
\* plus the sum of the amounts of the user's ledger entries.
BalanceEqualsLedger ==
    (Quiescent /\ \A c \in DOMAIN calls : calls[c].logResult # "threw") =>
        \A u \in Users :
            Total(users[u]) = Total(InitUsers[u])
                                + SumEntries({e \in ledger : e.userId = u})


RecordsMatchOccupancy ==
    Quiescent =>
        \A t \in Tournaments :
            tournaments[t].exists =>
                /\ Cardinality(RegistrationsOf(t)) = tournaments[t].registeredPlayers
                /\ {r.userId : r \in RegistrationsOf(t)}
                      = Range(tournaments[t].registeredUsers)


\* C37: the room endpoint's response holds the tournament's roomId and
\* roomPassword when the tournament exists, the caller is in its
\* registeredUsers and its status is active or completed; in every other
\* case the response is an error whose body has no roomId and no
\* roomPassword.
RoomOnlyForRegisteredAfterStart ==
    split.phase = "room output" =>
        LET tournament == split.tournament
            body == split.response.body
        IN  IF /\ tournament.exists
               /\ split.userId \in Range(tournament.registeredUsers)
               /\ tournament.status \in {"active", "completed"}
            THEN /\ split.response.status = 200
                 /\ body.roomId = tournament.roomId
                 /\ body.roomPassword = tournament.roomPassword
            ELSE /\ split.response.status \in {400, 403, 404}
                 /\ "roomId" \notin DOMAIN body
                 /\ "roomPassword" \notin DOMAIN body

\* A registered caller was shown the room of an active tournament.
RoomShownToRegistered ==
    /\ split.phase = "room output"
    /\ split.response.status = 200
    /\ split.tournament.status = "active"
    /\ split.response.body.roomId = "room1"
    /\ split.response.body.roomPassword = "pw1"

====
